---- MODULE Spec2Model ----
(***************************************************************************)
(* Bootstrap layer of the ClickHouse command-line client.                  *)
(*                                                                         *)
(*   - Client::main / Client::connect  (programs/client/Client.cpp):       *)
(*     the failover loop over hosts_and_ports and the password retry.      *)
(*   - ConnectionParameters constructor (src/Client/ConnectionParameters): *)
(*     credential mechanism, port and security resolution.                 *)
(*   - Client::readArguments / Client::processOptions: the tokenizer that  *)
(*     splits argv into common arguments, external-table groups and        *)
(*     host/port groups.                                                   *)
(*                                                                         *)
(* Strings the code inspects character by character (command-line tokens,  *)
(* host names) are sequences of one-character strings, so that starts_with *)
(* and concatenation are computed and not looked up.                       *)
(***************************************************************************)
EXTENDS Integers, Sequences, FiniteSets, TLC

VARIABLES
    \* ---- Client::main / Client::connect
    pc,                    \* position of main / connect
    pass,                  \* number of calls of connect() made by main()
    is_interactive,        \* Client::is_interactive
    build,                 \* compile-time switches USE_JWT_CPP && USE_SSL, USE_SSH
    use_client_time_zone,  \* Setting::use_client_time_zone of the client context
    config,                \* the layered configuration, key -> {} (absent) or {value}
    hosts_and_ports,       \* Client::hosts_and_ports
    attempted_address_index,
    connection_parameters, \* Client::connection_parameters
    connection,            \* the host index Client::connection is connected to, 0: none
    exception,             \* the exception in flight
    server_display_name,
    time_zone_adopted,     \* "local", or the server time zone DateLUT switched to
    warnings,              \* warnings written to std::cerr by connect()
    attempt_log,           \* one record per finished host attempt, in order
    thrown,                \* the exceptions that left connect(), one per failed call
    \* ---- Client::readArguments / Client::processOptions
    tpc,                   \* position of the tokenizer
    argv,                  \* the arguments after argv[0]
    arg_num,               \* index of the next argument to scan (1-based)
    in_external_group,
    prev_host_arg,
    prev_port_arg,
    common_arguments,
    external_tables_arguments,
    hosts_and_ports_arguments,
    query_parameters,
    allow_settings,        \* allow_repeated_settings / allow_merge_tree_settings, as a set
    parsed_hosts_and_ports, \* hosts_and_ports as filled by processOptions
    targ_error,            \* error code thrown by the tokenizer, "" if none
    \* ---- Client::processOptions (configuration part) / Client::initialize
    options,               \* the parsed command line, option -> {} (not given) or {value}
    environment,           \* environment variables, name -> {} (unset) or {value}
    loaded_config,         \* the configuration file and its connections_credentials
    history_max_entries,   \* Client::history_max_entries
    \* ---- session facts, prompt and exit status
    server_version,        \* the (major, minor, patch) the servers report in the handshake
    advisory,              \* the message printed by the comparison of the versions, "" if none
    prompt_by_server_display_name, \* the table of the configuration: {} or {<<[key, value], ...>>}
    prompt,                \* Client::prompt
    error_code,            \* the code of the exception that ends the process
    error_site,            \* where it is caught: "main", "entry", or "" when none is in flight
    exit_code,             \* the value returned to the operating system: {} or {value}
    timeouts               \* connection_parameters.timeouts, each <<seconds, microseconds>>

conn_vars == <<pc, pass, is_interactive, build, use_client_time_zone, config,
               hosts_and_ports, attempted_address_index, connection_parameters,
               connection, exception, server_display_name, time_zone_adopted,
               warnings, attempt_log, thrown>>

tok_vars == <<tpc, argv, arg_num, in_external_group, prev_host_arg, prev_port_arg,
              common_arguments, external_tables_arguments, hosts_and_ports_arguments,
              query_parameters, allow_settings, parsed_hosts_and_ports, targ_error>>

res_vars == <<options, environment, loaded_config, history_max_entries>>

ses_vars == <<server_version, advisory, prompt_by_server_display_name, prompt,
              error_code, error_site, exit_code, timeouts>>

vars == <<conn_vars, tok_vars, res_vars, ses_vars>>

\* ------------------------------------------------------------------ bounds

\* longest list of hosts given on the command line
MaxHosts == 3

\* ------------------------------------------------------------------ strings

\* the decimal digits, in order
Digits == <<"0", "1", "2", "3", "4", "5", "6", "7", "8", "9">>

\* std::string_view::starts_with
StartsWith(s, prefix) ==
    /\ Len(s) >= Len(prefix)
    /\ SubSeq(s, 1, Len(prefix)) = prefix

\* std::string::ends_with
EndsWith(s, suffix) ==
    /\ Len(s) >= Len(suffix)
    /\ SubSeq(s, Len(s) - Len(suffix) + 1, Len(s)) = suffix

\* ------------------------------------------------------------------ constants

LOCALHOST == <<"l", "o", "c", "a", "l", "h", "o", "s", "t">>

\* ConnectionParameters::ASK_PASSWORD, the value "\n" standing for an omitted password
ASK_PASSWORD == <<"\n">>

DBMS_DEFAULT_PORT == 9000
DBMS_DEFAULT_SECURE_PORT == 9440

\* std::optional<UInt16> without a value
NoPort == 0

\* the i-th host name given on the command line
HostNames == <<"a", "b", "c", "d", "e", "f">>
HostAt(i) == <<HostNames[i]>>

\* ------------------------------------------------------------------ configuration

ConfigKeys == {"host", "port", "user", "password", "ask-password", "jwt",
               "ssh-key-file", "secure", "no-secure", "connection", "database",
               "history_file", "history_max_entries", "accept-invalid-certificate",
               "prompt", "connect_timeout", "send_timeout", "receive_timeout",
               "tcp_keep_alive_timeout", "handshake_timeout_ms", "sync_request_timeout",
               "openSSL.client.invalidCertificateHandler.name",
               "openSSL.client.verificationMode"}

\* AbstractConfiguration::has
Has(cfg, key) == cfg[key] # {}

\* AbstractConfiguration::getString / getBool / getInt with a default
Get(cfg, key, default) == IF cfg[key] = {} THEN default ELSE CHOOSE v \in cfg[key] : TRUE

\* AbstractConfiguration::setString / setBool / setInt
Set(cfg, key, value) == [cfg EXCEPT ![key] = {value}]

EmptyConfig == [k \in ConfigKeys |-> {}]

\* options of the command line that processOptions copies to the configuration
OptionKeys == {"connection", "secure", "no-secure", "user", "password", "ask-password",
               "ssh-key-file", "jwt", "accept-invalid-certificate"}

NoOptions == [k \in OptionKeys |-> {}]

\* the environment variables read by initialize
EnvironmentKeys == {"HOME", "CLICKHOUSE_USER", "CLICKHOUSE_PASSWORD"}

NoEnvironment == [k \in EnvironmentKeys |-> {}]

\* no configuration file was found
NoFile == [found |-> FALSE, root |-> EmptyConfig, connections_credentials |-> <<>>]

\* the command line and the configuration file play no part
ResIdle ==
    /\ options = NoOptions
    /\ environment = NoEnvironment
    /\ loaded_config = NoFile
    /\ history_max_entries = 0

res_idle == UNCHANGED res_vars

\* the timeouts of a default-constructed ConnectionParameters. A duration is
\* <<whole seconds, microseconds in 0..999999>>: a Poco::Timespan counts
\* microseconds in 64 bits, and the pair holds all of them.
NoTimeouts ==
    [connection |-> <<0, 0>>, send |-> <<0, 0>>, receive |-> <<0, 0>>,
     tcp_keep_alive |-> <<0, 0>>, handshake |-> <<0, 0>>, sync_request |-> <<0, 0>>]

\* VERSION_MAJOR, VERSION_MINOR, VERSION_PATCH of the build
VERSION == <<2, 2, 2>>

\* The servers run the version of the client, the configuration has no prompt
\* table, the prompt is the empty string of the constructed Client, and no
\* exception has reached the end of the process.
SesIdle ==
    /\ server_version = VERSION
    /\ advisory = ""
    /\ prompt_by_server_display_name = {}
    /\ prompt = <<>>
    /\ error_code = 0
    /\ error_site = ""
    /\ exit_code = {}
    /\ timeouts = NoTimeouts

ses_idle == UNCHANGED ses_vars

\* ------------------------------------------------------------------ ConnectionParameters

CLOUD_SUFFIX == <<".", "c", "l", "i", "c", "k", "h", "o", "u", "s", "e", ".",
                  "c", "l", "o", "u", "d">>
STAGING_SUFFIX == <<".", "c", "l", "i", "c", "k", "h", "o", "u", "s", "e", "-",
                    "s", "t", "a", "g", "i", "n", "g", ".", "c", "o", "m">>

\* a decision that looks at the host suffix before it looks at no-secure
enableSecureConnection_SuffixFirst(cfg, connection_host, connection_port) ==
    IF Get(cfg, "secure", FALSE) THEN TRUE
    ELSE IF EndsWith(connection_host, CLOUD_SUFFIX) \/ EndsWith(connection_host, STAGING_SUFFIX)
         THEN TRUE
    ELSE IF Get(cfg, "no-secure", FALSE) THEN FALSE
    ELSE IF connection_port # NoPort /\ connection_port = DBMS_DEFAULT_SECURE_PORT THEN TRUE
    ELSE FALSE

\* enableSecureConnection(config, connection_host, connection_port)
enableSecureConnection(cfg, connection_host, connection_port) ==
    IF Get(cfg, "secure", FALSE) THEN TRUE
    ELSE IF Get(cfg, "no-secure", FALSE) THEN FALSE
    ELSE IF EndsWith(connection_host, CLOUD_SUFFIX) \/ EndsWith(connection_host, STAGING_SUFFIX)
         THEN TRUE
    ELSE IF connection_port # NoPort /\ connection_port = DBMS_DEFAULT_SECURE_PORT THEN TRUE
    ELSE FALSE

\* ConnectionParameters::getPortFromConfig; tcp_port / tcp_port_secure are not set
getPortFromConfig(cfg, connection_host) ==
    LET is_secure == enableSecureConnection(cfg, connection_host, NoPort)
    IN  Get(cfg, "port", IF is_secure THEN DBMS_DEFAULT_SECURE_PORT ELSE DBMS_DEFAULT_PORT)

\* What the constructor meets outside the configuration: whether the host name
\* resolves, and what the SSH key file holds.
CtorEnv == [dns_ok : BOOLEAN, key : {"private", "public", "unreadable"}]

\* a constructor that does not look for password together with ask-password
CtorError_NoConflictCheck(cfg, bld, host_, env) ==
    LET mechanism ==
            IF Has(cfg, "jwt")
            THEN (IF bld.use_jwt THEN "" ELSE "SUPPORT_IS_DISABLED")
            ELSE IF Has(cfg, "ssh-key-file")
            THEN (IF ~bld.use_ssh THEN "SUPPORT_IS_DISABLED"
                  ELSE IF env.key = "unreadable" THEN "LIBSSH_ERROR"
                  ELSE IF env.key = "public" THEN "BAD_ARGUMENTS"
                  ELSE "")
            ELSE ""
    IN  IF mechanism # "" THEN mechanism
        ELSE IF host_ # LOCALHOST /\ ~env.dns_ok THEN "DNS_ERROR"
        ELSE ""

\* The first exception thrown by the ConnectionParameters constructor, "" if none.
CtorError(cfg, bld, host_, env) ==
    LET mechanism ==
            IF Has(cfg, "jwt")
            THEN (IF bld.use_jwt THEN "" ELSE "SUPPORT_IS_DISABLED")
            ELSE IF Has(cfg, "ssh-key-file")
            THEN (IF ~bld.use_ssh THEN "SUPPORT_IS_DISABLED"
                  ELSE IF env.key = "unreadable" THEN "LIBSSH_ERROR"
                  ELSE IF env.key = "public" THEN "BAD_ARGUMENTS"
                  ELSE "")
            ELSE IF Get(cfg, "ask-password", FALSE) /\ Has(cfg, "password")
            THEN "BAD_ARGUMENTS"
            ELSE ""
    IN  IF mechanism # "" THEN mechanism
        ELSE IF host_ # LOCALHOST /\ ~env.dns_ok THEN "DNS_ERROR"
        ELSE ""

\* whether the constructor reads the password from the terminal
PasswordPrompt(cfg) ==
    /\ ~Has(cfg, "jwt")
    /\ ~Has(cfg, "ssh-key-file")
    /\ IF Get(cfg, "ask-password", FALSE)
       THEN TRUE
       ELSE Get(cfg, "password", <<>>) = ASK_PASSWORD

\* what the user types at the masked prompt
TypedPassword == <<"t">>

\* a constructor that reads the password whatever the mechanism
ConnectionParametersCtor_KeepsPassword(cfg, host_, port_) ==
    [host     |-> host_,
     port     |-> IF port_ # NoPort THEN port_ ELSE getPortFromConfig(cfg, host_),
     security |-> enableSecureConnection(cfg, host_, NoPort),
     user     |-> Get(cfg, "user", <<"d", "e", "f", "a", "u", "l", "t">>),
     jwt      |-> IF Has(cfg, "jwt") THEN Get(cfg, "jwt", <<>>) ELSE <<>>,
     ssh_private_key |->
                  IF ~Has(cfg, "jwt") /\ Has(cfg, "ssh-key-file")
                  THEN Get(cfg, "ssh-key-file", <<>>) ELSE <<>>,
     password |-> IF PasswordPrompt(cfg) THEN TypedPassword
                  ELSE Get(cfg, "password", <<>>),
     prompted |-> PasswordPrompt(cfg)]

\* ConnectionParameters::ConnectionParameters(config, host_, database, port_),
\* for a configuration on which it does not throw
ConnectionParametersCtor(cfg, host_, port_) ==
    [host     |-> host_,
     port     |-> IF port_ # NoPort THEN port_ ELSE getPortFromConfig(cfg, host_),
     security |-> enableSecureConnection(cfg, host_, NoPort),
     user     |-> Get(cfg, "user", <<"d", "e", "f", "a", "u", "l", "t">>),
     jwt      |-> IF Has(cfg, "jwt") THEN Get(cfg, "jwt", <<>>) ELSE <<>>,
     ssh_private_key |->
                  IF ~Has(cfg, "jwt") /\ Has(cfg, "ssh-key-file")
                  THEN Get(cfg, "ssh-key-file", <<>>) ELSE <<>>,
     password |-> IF Has(cfg, "jwt") \/ Has(cfg, "ssh-key-file") THEN <<>>
                  ELSE IF PasswordPrompt(cfg) THEN TypedPassword
                  ELSE Get(cfg, "password", <<>>),
     prompted |-> PasswordPrompt(cfg)]

\* The durations Poco::Timespan(handshake_timeout_ms * 1000) can be
\* (ConnectionParameters.cpp:164). The product is computed in int and then
\* widened to the 64-bit microseconds of the Timespan. A product outside int
\* is undefined: the build gives the product cut to 32 bits, or the exact
\* product when it multiplies in 64 bits. The cut product is computed in
\* halves of 16 bits.
HandshakeTimespans(ms) ==
    LET low == (ms % 65536) * 1000
        high == ((ms \div 65536) * 1000 + (low \div 65536)) % 65536
        cut == (IF high >= 32768 THEN high - 65536 ELSE high) * 65536 + (low % 65536)
        wrapped == <<cut \div 1000000, cut % 1000000>>
        exact == <<ms \div 1000, (ms % 1000) * 1000>>
    IN  {wrapped, exact}

\* ConnectionParameters.cpp:154-166: each timeout is its key of the
\* configuration, read by getInt without a check of its sign, or else its
\* default, as a Poco::Timespan(seconds, 0), but for the handshake timeout,
\* which is given in milliseconds. The defaults are the macros of
\* Core/Defines.h, in seconds.
Timeouts(cfg) ==
    LET Timespan(seconds, microseconds) == <<seconds, microseconds>>
        DBMS_DEFAULT_CONNECT_TIMEOUT_SEC == 10
        DBMS_DEFAULT_SEND_TIMEOUT_SEC == 300
        DBMS_DEFAULT_RECEIVE_TIMEOUT_SEC == 300
        DEFAULT_TCP_KEEP_ALIVE_TIMEOUT == 290
        DBMS_DEFAULT_SYNC_REQUEST_TIMEOUT_SEC == 5
    IN  {[connection     |-> Timespan(Get(cfg, "connect_timeout",
                                          DBMS_DEFAULT_CONNECT_TIMEOUT_SEC), 0),
          send           |-> Timespan(Get(cfg, "send_timeout",
                                          DBMS_DEFAULT_SEND_TIMEOUT_SEC), 0),
          receive        |-> Timespan(Get(cfg, "receive_timeout",
                                          DBMS_DEFAULT_RECEIVE_TIMEOUT_SEC), 0),
          tcp_keep_alive |-> Timespan(Get(cfg, "tcp_keep_alive_timeout",
                                          DEFAULT_TCP_KEEP_ALIVE_TIMEOUT), 0),
          handshake      |-> h,
          sync_request   |-> Timespan(Get(cfg, "sync_request_timeout",
                                          DBMS_DEFAULT_SYNC_REQUEST_TIMEOUT_SEC), 0)] :
            h \in HandshakeTimespans(Get(cfg, "handshake_timeout_ms",
                                         DBMS_DEFAULT_RECEIVE_TIMEOUT_SEC * 1000))}

NoParameters ==
    [host |-> <<>>, port |-> NoPort, security |-> FALSE, user |-> <<>>, jwt |-> <<>>,
     ssh_private_key |-> <<>>, password |-> <<>>, prompted |-> FALSE]

\* ------------------------------------------------------------------ Client::connect

NoException == [code |-> "", host_index |-> 0, step |-> ""]

\* error codes the Connection can fail with; NETWORK_ERROR stands for every
\* code other than the two that connect() and main() single out
ServerErrors == {"AUTHENTICATION_FAILED", "REQUIRED_PASSWORD", "NETWORK_ERROR"}

\* Client.cpp:498, the errors that reconnection cannot fix
IsAuthError(code) == code = "AUTHENTICATION_FAILED" \/ code = "REQUIRED_PASSWORD"

\* errors of the calls made after the loop
PostCommitErrors == {"AUTHENTICATION_FAILED", "NETWORK_ERROR"}

\* names a server can report for itself, and time zones it can report
DisplayNames == {<<>>, <<"c", "l", "i", "c", "k", "h", "o", "u", "s", "e", "-", "c", "l", "o", "u", "d">>}
TimeZones == {<<>>, <<"U", "T", "C">>, <<"X">>}

\* DateLUT::setDefaultTimezone accepts the zone
KnownTimeZone(tz) == tz = <<"U", "T", "C">>

Attempt(result, prompted_) ==
    [pass |-> pass, index |-> attempted_address_index,
     host |-> hosts_and_ports[attempted_address_index].host,
     result |-> result, prompted |-> prompted_]

tok_idle == UNCHANGED tok_vars

\* a second call of connect() that goes on at the address that failed
ConnectEnter_ResumesAtFailedAddress ==
    /\ pc = "call_connect"
    /\ hosts_and_ports' =
          IF hosts_and_ports = <<>>
          THEN LET host == Get(config, "host", LOCALHOST)
               IN  <<[host |-> host, port |-> getPortFromConfig(config, host)]>>
          ELSE hosts_and_ports
    /\ attempted_address_index' = IF pass = 0 THEN 1 ELSE attempted_address_index
    /\ pass' = pass + 1
    /\ pc' = "attempt"
    /\ UNCHANGED <<is_interactive, build, use_client_time_zone, config,
                   connection_parameters, connection, exception, server_display_name,
                   time_zone_adopted, warnings, attempt_log, thrown>>
    /\ tok_idle
    /\ ses_idle
    /\ res_idle

\* main() calls connect(): the default host is added to an empty list and the
\* loop starts at the first address.
ConnectEnter ==
    /\ pc = "call_connect"
    /\ hosts_and_ports' =
          IF hosts_and_ports = <<>>
          THEN LET host == Get(config, "host", LOCALHOST)
               IN  <<[host |-> host, port |-> getPortFromConfig(config, host)]>>
          ELSE hosts_and_ports
    /\ attempted_address_index' = 1
    /\ pass' = pass + 1
    /\ pc' = "attempt"
    /\ UNCHANGED <<is_interactive, build, use_client_time_zone, config,
                   connection_parameters, connection, exception, server_display_name,
                   time_zone_adopted, warnings, attempt_log, thrown>>
    /\ tok_idle
    /\ ses_idle
    /\ res_idle

\* an attempt that stores the password it read in the configuration
AttemptBuildParameters_KeepsTypedPassword ==
    /\ pc = "attempt"
    /\ attempted_address_index <= Len(hosts_and_ports)
    /\ \E env \in CtorEnv :
         LET hp == hosts_and_ports[attempted_address_index]
             err == CtorError(config, build, hp.host, env)
         IN  IF err = ""
             THEN /\ connection_parameters' = ConnectionParametersCtor(config, hp.host, hp.port)
                  /\ timeouts' \in Timeouts(config)
                  /\ pc' = "handshake"
                  /\ UNCHANGED <<exception, attempt_log>>
             ELSE /\ exception' = [code |-> err, host_index |-> attempted_address_index,
                                   step |-> "parameters"]
                  /\ attempt_log' =
                       Append(attempt_log,
                              Attempt(err, err = "DNS_ERROR" /\ PasswordPrompt(config)))
                  /\ pc' = "catch"
                  /\ UNCHANGED <<connection_parameters, timeouts>>
    /\ config' = IF PasswordPrompt(config) THEN Set(config, "password", TypedPassword)
                 ELSE config
    /\ UNCHANGED <<pass, is_interactive, build, use_client_time_zone,
                   hosts_and_ports, attempted_address_index, connection,
                   server_display_name, time_zone_adopted, warnings, thrown>>
    /\ UNCHANGED <<server_version, advisory, prompt_by_server_display_name, prompt,
                   error_code, error_site, exit_code>>
    /\ tok_idle
    /\ res_idle

\* One iteration of the loop, up to Connection::createConnection: the
\* ConnectionParameters of the host are built, which may throw. The host name
\* is resolved (ConnectionParameters.cpp:151) after the password was read
\* (128-134), so an attempt that fails there has prompted.
AttemptBuildParameters ==
    /\ pc = "attempt"
    /\ attempted_address_index <= Len(hosts_and_ports)
    /\ \E env \in CtorEnv :
         LET hp == hosts_and_ports[attempted_address_index]
             err == CtorError(config, build, hp.host, env)
         IN  IF err = ""
             THEN /\ connection_parameters' = ConnectionParametersCtor(config, hp.host, hp.port)
                  /\ timeouts' \in Timeouts(config)
                  /\ pc' = "handshake"
                  /\ UNCHANGED <<exception, attempt_log>>
             ELSE /\ exception' = [code |-> err, host_index |-> attempted_address_index,
                                   step |-> "parameters"]
                  /\ attempt_log' =
                       Append(attempt_log,
                              Attempt(err, err = "DNS_ERROR" /\ PasswordPrompt(config)))
                  /\ pc' = "catch"
                  /\ UNCHANGED <<connection_parameters, timeouts>>
    /\ UNCHANGED <<pass, is_interactive, build, use_client_time_zone, config,
                   hosts_and_ports, attempted_address_index, connection,
                   server_display_name, time_zone_adopted, warnings, thrown>>
    /\ UNCHANGED <<server_version, advisory, prompt_by_server_display_name, prompt,
                   error_code, error_site, exit_code>>
    /\ tok_idle
    /\ res_idle

\* a handshake that does not write the host and the port back
AttemptHandshake_NoWriteBack ==
    /\ pc = "handshake"
    /\ \E outcome \in {"OK"} \cup ServerErrors :
         IF outcome = "OK"
         THEN /\ attempt_log' = Append(attempt_log,
                                       Attempt("OK", connection_parameters.prompted))
              /\ pc' = "display_name"
              /\ UNCHANGED exception
         ELSE /\ exception' = [code |-> outcome, host_index |-> attempted_address_index,
                               step |-> "version"]
              /\ attempt_log' = Append(attempt_log,
                                       Attempt(outcome, connection_parameters.prompted))
              /\ pc' = "catch"
    /\ connection' = attempted_address_index
    /\ UNCHANGED <<pass, is_interactive, build, use_client_time_zone, hosts_and_ports,
                   attempted_address_index, connection_parameters, server_display_name,
                   time_zone_adopted, warnings, thrown, config>>
    /\ tok_idle
    /\ ses_idle
    /\ res_idle

\* createConnection, getServerVersion and settingsFromServer: on success the
\* host and port are written back to the configuration and the loop is left.
AttemptHandshake ==
    /\ pc = "handshake"
    /\ \E outcome \in {"OK"} \cup ServerErrors :
         IF outcome = "OK"
         THEN /\ config' = Set(Set(config, "host", connection_parameters.host),
                               "port", connection_parameters.port)
              /\ attempt_log' = Append(attempt_log,
                                       Attempt("OK", connection_parameters.prompted))
              /\ pc' = "display_name"
              /\ UNCHANGED exception
         ELSE /\ exception' = [code |-> outcome, host_index |-> attempted_address_index,
                               step |-> "version"]
              /\ attempt_log' = Append(attempt_log,
                                       Attempt(outcome, connection_parameters.prompted))
              /\ pc' = "catch"
              /\ UNCHANGED config
    /\ connection' = attempted_address_index
    /\ UNCHANGED <<pass, is_interactive, build, use_client_time_zone, hosts_and_ports,
                   attempted_address_index, connection_parameters, server_display_name,
                   time_zone_adopted, warnings, thrown>>
    /\ tok_idle
    /\ ses_idle
    /\ res_idle

\* a catch block that always goes on with the next address while one is left
CatchRethrows_AuthNotSingledOut(code, index, size) == index = size

\* a catch block that takes the address before the last for the last
CatchRethrows_OffByOne(code, index, size) == IsAuthError(code) \/ index >= size - 1

\* a catch block that rethrows every error
CatchRethrows_Always(code, index, size) == TRUE

\* Client.cpp:498-502, whether the catch block of the loop rethrows
CatchRethrows(code, index, size) == IsAuthError(code) \/ index = size

\* a loop that steps over an address after a failure
NextAddressIndex_Skips(index) == index + 2

\* Client.cpp:455, ++attempted_address_index
NextAddressIndex(index) == index + 1

\* The catch block of the loop: rethrow an authentication error, rethrow the
\* error of the last address, otherwise go on with the next address.
AttemptCatch ==
    /\ pc = "catch"
    /\ IF CatchRethrows(exception.code, attempted_address_index, Len(hosts_and_ports))
       THEN /\ pc' = "connect_threw"
            /\ thrown' = Append(thrown, exception)
            /\ UNCHANGED <<attempted_address_index, exception>>
       ELSE /\ attempted_address_index' = NextAddressIndex(attempted_address_index)
            /\ exception' = NoException
            /\ pc' = "attempt"
            /\ UNCHANGED thrown
    /\ UNCHANGED <<pass, is_interactive, build, use_client_time_zone, config,
                   hosts_and_ports, connection_parameters, connection,
                   server_display_name, time_zone_adopted, warnings, attempt_log>>
    /\ tok_idle
    /\ ses_idle
    /\ res_idle

\* After the loop: getServerDisplayName, with the configured host as fallback.
\* The call is outside the try block of the loop.
FetchDisplayName ==
    /\ pc = "display_name"
    /\ \/ \E name \in DisplayNames :
            /\ server_display_name' =
                  IF name = <<>> THEN Get(config, "host", LOCALHOST) ELSE name
            /\ pc' = "version"
            /\ UNCHANGED <<exception, thrown>>
       \/ \E code \in PostCommitErrors :
            /\ exception' = [code |-> code, host_index |-> attempted_address_index,
                             step |-> "display_name"]
            /\ thrown' = Append(thrown, exception')
            /\ pc' = "connect_threw"
            /\ UNCHANGED server_display_name
    /\ UNCHANGED <<pass, is_interactive, build, use_client_time_zone, config,
                   hosts_and_ports, attempted_address_index, connection_parameters,
                   connection, time_zone_adopted, warnings, attempt_log>>
    /\ tok_idle
    /\ ses_idle
    /\ res_idle

\* a negotiation in which a server without a time zone makes connect() fail
NegotiateTimeZone_EmptyZoneThrows ==
    /\ pc = "time_zone"
    /\ IF use_client_time_zone
       THEN /\ pc' = "prompt"
            /\ UNCHANGED <<exception, time_zone_adopted, warnings, thrown>>
       ELSE \/ \E time_zone \in TimeZones \ {<<>>} :
                 /\ pc' = "prompt"
                 /\ time_zone_adopted' =
                       IF KnownTimeZone(time_zone) THEN time_zone ELSE time_zone_adopted
                 /\ warnings' =
                       IF ~KnownTimeZone(time_zone)
                       THEN Append(warnings, "could not switch to server time zone")
                       ELSE warnings
                 /\ UNCHANGED <<exception, thrown>>
            \/ /\ exception' = [code |-> "NETWORK_ERROR",
                                host_index |-> attempted_address_index,
                                step |-> "empty_time_zone"]
               /\ thrown' = Append(thrown, exception')
               /\ pc' = "connect_threw"
               /\ UNCHANGED <<time_zone_adopted, warnings>>
    /\ UNCHANGED <<pass, is_interactive, build, use_client_time_zone, config,
                   hosts_and_ports, attempted_address_index, connection_parameters,
                   connection, server_display_name, attempt_log>>
    /\ tok_idle
    /\ ses_idle
    /\ res_idle

\* The time zone of the server is asked for unless use_client_time_zone is set;
\* an empty or unusable zone leaves the local one and prints a warning.
NegotiateTimeZone ==
    /\ pc = "time_zone"
    /\ IF use_client_time_zone
       THEN /\ pc' = "prompt"
            /\ UNCHANGED <<exception, time_zone_adopted, warnings, thrown>>
       ELSE \/ \E time_zone \in TimeZones :
                 /\ pc' = "prompt"
                 /\ time_zone_adopted' =
                       IF time_zone # <<>> /\ KnownTimeZone(time_zone)
                       THEN time_zone ELSE time_zone_adopted
                 /\ warnings' =
                       IF time_zone = <<>>
                       THEN Append(warnings, "could not determine server time zone")
                       ELSE IF ~KnownTimeZone(time_zone)
                       THEN Append(warnings, "could not switch to server time zone")
                       ELSE warnings
                 /\ UNCHANGED <<exception, thrown>>
            \/ \E code \in PostCommitErrors :
                 /\ exception' = [code |-> code, host_index |-> attempted_address_index,
                                  step |-> "time_zone"]
                 /\ thrown' = Append(thrown, exception')
                 /\ pc' = "connect_threw"
                 /\ UNCHANGED <<time_zone_adopted, warnings>>
    /\ UNCHANGED <<pass, is_interactive, build, use_client_time_zone, config,
                   hosts_and_ports, attempted_address_index, connection_parameters,
                   connection, server_display_name, attempt_log>>
    /\ tok_idle
    /\ ses_idle
    /\ res_idle

\* ------------------------------------------------------------------ after the loop: version, prompt

\* a comparison that looks at the major version only
TupleLess_MajorOnly(a, b) == a[1] < b[1]

\* operator< of std::tuple<major, minor, patch>: lexicographic
TupleLess(a, b) ==
    \/ a[1] < b[1]
    \/ (a[1] = b[1] /\ a[2] < b[2])
    \/ (a[1] = b[1] /\ a[2] = b[2] /\ a[3] < b[3])

\* Client.cpp:527-548 (build without CLICKHOUSE_CLOUD): the message printed
\* after "Connected to ...", "" if none
VersionAdvisory(interactive, client, server, display_name) ==
    IF ~interactive THEN ""
    ELSE IF TupleLess(client, server) THEN "client older"
    ELSE IF /\ TupleLess(server, client)
            /\ display_name # <<"c", "l", "i", "c", "k", "h", "o", "u", "s", "e", "-",
                                "c", "l", "o", "u", "d">>
         THEN "server older"
    ELSE ""

\* The versions are compared and a message may be printed; connect() goes on.
AdviseVersion ==
    /\ pc = "version"
    /\ advisory' = VersionAdvisory(is_interactive, VERSION, server_version,
                                   server_display_name)
    /\ pc' = "time_zone"
    /\ UNCHANGED <<pass, is_interactive, build, use_client_time_zone, config,
                   hosts_and_ports, attempted_address_index, connection_parameters,
                   connection, exception, server_display_name, time_zone_adopted,
                   warnings, attempt_log, thrown>>
    /\ UNCHANGED <<server_version, prompt_by_server_display_name, prompt,
                   error_code, error_site, exit_code, timeouts>>
    /\ tok_idle
    /\ res_idle

\* Client.cpp:578-599. table is {} when the configuration has no
\* prompt_by_server_display_name, else {<<[key, value], ...>>} with the entries
\* in the order config().keys lists them; previous is the value of the member
\* prompt before the statement.
SelectPrompt(cfg, table, display_name, previous) ==
    IF Has(cfg, "prompt") THEN Get(cfg, "prompt", <<>>)
    ELSE IF table # {}
    THEN LET entries == CHOOSE t \in table : TRUE
             default == <<"d", "e", "f", "a", "u", "l", "t">>
             \* std::string::contains
             contains(s, sub) ==
                 \E i \in 0..(Len(s) - Len(sub)) : SubSeq(s, i + 1, i + Len(sub)) = sub
             defaults == {i \in 1..Len(entries) : entries[i].key = default}
             matches  == {i \in 1..Len(entries) :
                            /\ entries[i].key # default
                            /\ contains(display_name, entries[i].key)}
             first(S) == CHOOSE i \in S : \A j \in S : i <= j
         IN  IF matches # {} THEN entries[first(matches)].value
             ELSE IF defaults # {} THEN entries[first(defaults)].value
             ELSE previous
    ELSE <<"{", "d", "i", "s", "p", "l", "a", "y", "_", "n", "a", "m", "e", "}">>

RECURSIVE readEscapedString(_)
\* readEscapedString on the template: \e is the escape character, \\ a
\* backslash, and a backslash that starts no known sequence is literal text
readEscapedString(s) ==
    IF s = <<>> THEN <<>>
    ELSE IF Head(s) # "\\" \/ Len(s) = 1 THEN <<Head(s)>> \o readEscapedString(Tail(s))
    ELSE IF s[2] = "e" THEN <<"ESC">> \o readEscapedString(SubSeq(s, 3, Len(s)))
    ELSE IF s[2] = "\\" THEN <<"\\">> \o readEscapedString(SubSeq(s, 3, Len(s)))
    ELSE <<s[1], s[2]>> \o readEscapedString(SubSeq(s, 3, Len(s)))

RECURSIVE toString(_)
\* toString(UInt16): the decimal digits
toString(n) ==
    IF n < 10 THEN <<Digits[n + 1]>>
    ELSE toString(n \div 10) \o <<Digits[(n % 10) + 1]>>

RECURSIVE replace_all_FirstOnly(_, _, _)
\* a replacement of the first occurrence only
replace_all_FirstOnly(input, search, format) ==
    IF Len(input) < Len(search) THEN input
    ELSE IF StartsWith(input, search)
    THEN format \o SubSeq(input, Len(search) + 1, Len(input))
    ELSE <<Head(input)>> \o replace_all_FirstOnly(Tail(input), search, format)

RECURSIVE replace_all(_, _, _)
\* boost::replace_all(input, search, format): every occurrence of search found
\* from left to right is replaced; the text put in is not searched again
replace_all(input, search, format) ==
    IF Len(input) < Len(search) THEN input
    ELSE IF StartsWith(input, search)
    THEN format \o replace_all(SubSeq(input, Len(search) + 1, Len(input)), search, format)
    ELSE <<Head(input)>> \o replace_all(Tail(input), search, format)

\* Client.cpp:610-615: a std::map, which a for loop visits in the order of
\* its keys: display_name, host, port, user
prompt_substitutions(parameters, display_name) ==
    << [key |-> <<"d", "i", "s", "p", "l", "a", "y", "_", "n", "a", "m", "e">>,
        value |-> display_name],
       [key |-> <<"h", "o", "s", "t">>, value |-> parameters.host],
       [key |-> <<"p", "o", "r", "t">>, value |-> toString(parameters.port)],
       [key |-> <<"u", "s", "e", "r">>, value |-> parameters.user] >>

RECURSIVE Substitute(_, _)
\* Client.cpp:617-618: one replace_all per entry, each on the result of the one before
Substitute(text, substitutions) ==
    IF substitutions = <<>> THEN text
    ELSE Substitute(replace_all(text, <<"{">> \o Head(substitutions).key \o <<"}">>,
                                Head(substitutions).value),
                    Tail(substitutions))

\* The rest of connect(): the template of the prompt is chosen, its escape
\* sequences are read and its placeholders are filled in.
ComposePrompt ==
    /\ pc = "prompt"
    /\ LET selected == SelectPrompt(config, prompt_by_server_display_name,
                                    server_display_name, prompt)
       IN  prompt' = Substitute(readEscapedString(selected),
                                prompt_substitutions(connection_parameters,
                                                     server_display_name))
    /\ pc' = "connected"
    /\ UNCHANGED <<pass, is_interactive, build, use_client_time_zone, config,
                   hosts_and_ports, attempted_address_index, connection_parameters,
                   connection, exception, server_display_name, time_zone_adopted,
                   warnings, attempt_log, thrown>>
    /\ UNCHANGED <<server_version, advisory, prompt_by_server_display_name,
                   error_code, error_site, exit_code, timeouts>>
    /\ tok_idle
    /\ res_idle

\* ------------------------------------------------------------------ Client::main

\* a catch block of main() that does not look for a configured password
RetryEligible_IgnoresPassword(e, cfg, interactive) ==
    ~ (\/ (e.code # "AUTHENTICATION_FAILED" /\ e.code # "REQUIRED_PASSWORD")
       \/ Get(cfg, "ask-password", FALSE)
       \/ ~interactive)

\* whether the catch block of main() makes the second connect()
RetryEligible(e, cfg, interactive) ==
    ~ (\/ (e.code # "AUTHENTICATION_FAILED" /\ e.code # "REQUIRED_PASSWORD")
       \/ Has(cfg, "password")
       \/ Get(cfg, "ask-password", FALSE)
       \/ ~interactive)

\* connect() threw. In the first pass the catch block of main() either rethrows
\* or sets ask-password and calls connect() again; an exception of the second
\* connect() leaves main() through its function-try-block.
MainCatch ==
    /\ pc = "connect_threw"
    /\ IF pass = 1 /\ RetryEligible(exception, config, is_interactive)
       THEN /\ config' = Set(config, "ask-password", TRUE)
            /\ exception' = NoException
            /\ pc' = "call_connect"
       ELSE /\ pc' = "aborted"
            /\ UNCHANGED <<config, exception>>
    /\ UNCHANGED <<pass, is_interactive, build, use_client_time_zone, hosts_and_ports,
                   attempted_address_index, connection_parameters, connection,
                   server_display_name, time_zone_adopted, warnings, attempt_log, thrown>>
    /\ tok_idle
    /\ ses_idle
    /\ res_idle

\* ------------------------------------------------------------------ specification of the bootstrap

\* all sequences over S of length 0 .. n
SeqsUpTo(S, n) == UNION {[1..k -> S] : k \in 0..n}

TokIdle ==
    /\ tpc = "idle"
    /\ argv = <<>>
    /\ arg_num = 1
    /\ in_external_group = FALSE
    /\ prev_host_arg = <<>>
    /\ prev_port_arg = <<>>
    /\ common_arguments = <<>>
    /\ external_tables_arguments = <<>>
    /\ hosts_and_ports_arguments = <<>>
    /\ query_parameters = {}
    /\ allow_settings = {}
    /\ parsed_hosts_and_ports = <<>>
    /\ targ_error = ""

\* The state in which main() reaches its first connect(): the hosts of the
\* command line, the credentials of the configuration, the terminal.
Init ==
    /\ pc = "call_connect"
    /\ pass = 0
    /\ is_interactive \in BOOLEAN
    /\ build \in {[use_jwt |-> b, use_ssh |-> b] : b \in BOOLEAN}
    /\ use_client_time_zone \in BOOLEAN
    /\ \E password \in {{}, {<<"p">>}, {ASK_PASSWORD}},
          ask \in {{}, {TRUE}},
          jwt \in {{}, {<<"j">>}},
          ssh \in {{}, {<<"k">>}} :
         config = [EmptyConfig EXCEPT !["password"] = password,
                                      !["ask-password"] = ask,
                                      !["jwt"] = jwt,
                                      !["ssh-key-file"] = ssh]
    /\ \E n \in 0..MaxHosts :
         hosts_and_ports = [i \in 1..n |-> [host |-> HostAt(i), port |-> NoPort]]
    /\ attempted_address_index = 0
    /\ connection_parameters = NoParameters
    /\ connection = 0
    /\ exception = NoException
    /\ server_display_name = <<>>
    /\ time_zone_adopted = <<"l", "o", "c", "a", "l">>
    /\ warnings = <<>>
    /\ attempt_log = <<>>
    /\ thrown = <<>>
    /\ TokIdle
    /\ SesIdle
    /\ ResIdle

Next ==
    \/ ConnectEnter
    \/ AttemptBuildParameters
    \/ AttemptHandshake
    \/ AttemptCatch
    \/ FetchDisplayName
    \/ AdviseVersion
    \/ NegotiateTimeZone
    \/ ComposePrompt
    \/ MainCatch

Spec == Init /\ [][Next]_vars

\* ------------------------------------------------------------------ properties of the bootstrap

\* the attempts of the p-th call of connect(), in order
PassLog(p) == SelectSeq(attempt_log, LAMBDA e : e.pass = p)

Committed == pc \in {"display_name", "version", "time_zone", "prompt", "connected"}

\* C1: connect() tries the hosts one at a time in list order from the first;
\* every attempt but the last of a call failed with an error other than
\* AUTHENTICATION_FAILED / REQUIRED_PASSWORD, so the committed host is the first
\* that succeeds and no host after it is tried; with hosts [A, B], A failing
\* with a transport error and B succeeding, the connection is to B and main()
\* makes no second call because of these attempts.
C1_FailoverOrder ==
    /\ \A p \in 1..2 :
         LET L == PassLog(p)
         IN  /\ \A i \in 1..Len(L) :
                   /\ L[i].index = i
                   /\ i <= Len(hosts_and_ports)
                   /\ L[i].host = hosts_and_ports[i].host
             /\ \A i \in 1..(Len(L) - 1) :
                   L[i].result \notin {"OK", "AUTHENTICATION_FAILED", "REQUIRED_PASSWORD"}
    /\ Len(PassLog(1)) + Len(PassLog(2)) = Len(attempt_log)
    /\ Committed =>
         LET L == PassLog(pass)
         IN  /\ Len(L) >= 1
             /\ L[Len(L)].result = "OK"
             /\ connection = Len(L)
             /\ connection_parameters.host = L[Len(L)].host
    /\ LET L == PassLog(1)
       IN  (/\ Len(hosts_and_ports) = 2
            /\ Len(L) = 2
            /\ L[1].result = "NETWORK_ERROR"
            /\ L[2].result = "OK")
           => (pass = 1 \/ (thrown # <<>> /\ thrown[1].step \in {"display_name", "time_zone"}))

\* hosts [A, B]: A failed with a transport error, B succeeded, connect() returned
C1_Witness ==
    /\ pc = "connected"
    /\ pass = 1
    /\ Len(hosts_and_ports) = 2
    /\ Len(attempt_log) = 2
    /\ attempt_log[1].result = "NETWORK_ERROR"
    /\ attempt_log[2].result = "OK"
    /\ connection = 2
    /\ thrown = <<>>

\* C2: an attempt that fails with AUTHENTICATION_FAILED or REQUIRED_PASSWORD is
\* the last attempt of its call of connect(), whatever its place in the list,
\* and that call ends with this very error.
C2_AuthErrorAborts ==
    \A p \in 1..2 :
      LET L == PassLog(p)
      IN  \A i \in 1..Len(L) :
            L[i].result \in {"AUTHENTICATION_FAILED", "REQUIRED_PASSWORD"} =>
              /\ i = Len(L)
              /\ \/ (pass = p /\ pc = "catch")
                 \/ /\ Len(thrown) >= p
                    /\ thrown[p].code = L[i].result
                    /\ thrown[p].host_index = i

\* three hosts, the middle one refuses the credentials, the third is never tried
C2_Witness ==
    /\ pc = "aborted"
    /\ Len(hosts_and_ports) = 3
    /\ Len(attempt_log) = 2
    /\ attempt_log[2].result = "AUTHENTICATION_FAILED"
    /\ exception.host_index = 2

\* C3: in the catch block, an error other than AUTHENTICATION_FAILED /
\* REQUIRED_PASSWORD makes the loop go on with the next host, without
\* surfacing, when a host is left, and leaves connect() as the error of the
\* last host when none is left.
C3_RecoverableAdvancesOrSurfaces ==
    [][(pc = "catch" /\ exception.code \notin {"AUTHENTICATION_FAILED", "REQUIRED_PASSWORD"})
         => IF attempted_address_index < Len(hosts_and_ports)
            THEN /\ pc' = "attempt"
                 /\ attempted_address_index' = attempted_address_index + 1
                 /\ thrown' = thrown
                 /\ hosts_and_ports' = hosts_and_ports
            ELSE /\ pc' = "connect_threw"
                 /\ thrown' = Append(thrown, exception)
                 /\ exception.host_index = Len(hosts_and_ports)
                 /\ exception.code = attempt_log[Len(attempt_log)].result]_vars

\* both hosts of the list failed with a transport error, the second surfaced
C3_Witness ==
    /\ pc = "connect_threw"
    /\ Len(hosts_and_ports) = 2
    /\ Len(attempt_log) = 2
    /\ attempt_log[1].result = "NETWORK_ERROR"
    /\ attempt_log[2].result = "NETWORK_ERROR"
    /\ thrown = <<[code |-> "NETWORK_ERROR", host_index |-> 2, step |-> "version"]>>

\* C4: after the first connect() threw AUTHENTICATION_FAILED or
\* REQUIRED_PASSWORD, with an interactive client and neither password nor
\* ask-password configured, main() sets ask-password and calls connect() once
\* more; otherwise the error leaves main(); connect() is called at most twice.
C4_OneRetry ==
    /\ [](pass <= 2)
    /\ [](pass = 2 => (Get(config, "ask-password", FALSE) /\ is_interactive))
    /\ [][pc = "connect_threw"
           => IF /\ pass = 1
                 /\ exception.code \in {"AUTHENTICATION_FAILED", "REQUIRED_PASSWORD"}
                 /\ is_interactive
                 /\ config["password"] = {}
                 /\ config["ask-password"] # {TRUE}
              THEN /\ pc' = "call_connect"
                   /\ config' = [config EXCEPT !["ask-password"] = {TRUE}]
                   /\ pass' = pass
              ELSE /\ pc' = "aborted"
                   /\ exception' = exception
                   /\ config' = config
                   /\ pass' = pass]_vars

\* the second connect() failed as the first did, and main() gave up
C4_Witness ==
    /\ pc = "aborted"
    /\ pass = 2
    /\ Len(thrown) = 2
    /\ thrown[1].code = "REQUIRED_PASSWORD"
    /\ thrown[2].code = "AUTHENTICATION_FAILED"
    /\ config["ask-password"] = {TRUE}

\* C5 as stated: no recoverable failure raised against a host that is not the
\* last one ever leaves connect(), whatever the step that failed.
C5_EveryStepFailsOver ==
    pc = "connect_threw" =>
       \/ exception.code \in {"AUTHENTICATION_FAILED", "REQUIRED_PASSWORD"}
       \/ exception.host_index = Len(hosts_and_ports)

\* C5, amended: a recoverable failure against a host that is not the last one
\* leaves connect() only when it comes from the calls made after the loop
\* (server display name, server time zone); the failures the catch block sees
\* come from building the parameters and from the version exchange.
C5_LoopStepsFailOver ==
    /\ pc = "connect_threw" =>
          \/ exception.code \in {"AUTHENTICATION_FAILED", "REQUIRED_PASSWORD"}
          \/ exception.host_index = Len(hosts_and_ports)
          \/ exception.step \in {"display_name", "time_zone"}
    /\ pc = "catch" => exception.step \in {"parameters", "version"}
    /\ \A i \in 1..Len(attempt_log) :
          (/\ attempt_log[i].result \notin {"OK", "AUTHENTICATION_FAILED", "REQUIRED_PASSWORD"}
           /\ attempt_log[i].index < Len(hosts_and_ports)
           /\ ~(pc = "catch" /\ i = Len(attempt_log)))
          => \/ (i = Len(attempt_log) /\ pc \in {"attempt", "handshake"}
                   /\ attempted_address_index = attempt_log[i].index + 1)
             \/ (i < Len(attempt_log) /\ attempt_log[i + 1].index = attempt_log[i].index + 1
                   /\ attempt_log[i + 1].pass = attempt_log[i].pass)

\* the name of the first host did not resolve and the second host is being tried
C5_Witness ==
    /\ pc = "handshake"
    /\ attempted_address_index = 2
    /\ Len(attempt_log) = 1
    /\ attempt_log[1].result = "DNS_ERROR"
    /\ Len(hosts_and_ports) = 3

\* ------------------------------------------------------------------ Client::readArguments

\* the string literals of readArguments
S_external == <<"-", "-", "e", "x", "t", "e", "r", "n", "a", "l">>
S_file == <<"-", "-", "f", "i", "l", "e">>
S_name == <<"-", "-", "n", "a", "m", "e">>
S_format == <<"-", "-", "f", "o", "r", "m", "a", "t">>
S_structure == <<"-", "-", "s", "t", "r", "u", "c", "t", "u", "r", "e">>
S_types == <<"-", "-", "t", "y", "p", "e", "s">>
S_file_eq == <<"-", "-", "f", "i", "l", "e", "=">>
S_name_eq == <<"-", "-", "n", "a", "m", "e", "=">>
S_format_eq == <<"-", "-", "f", "o", "r", "m", "a", "t", "=">>
S_structure_eq == <<"-", "-", "s", "t", "r", "u", "c", "t", "u", "r", "e", "=">>
S_types_eq == <<"-", "-", "t", "y", "p", "e", "s", "=">>
S_param_underline == <<"-", "-", "p", "a", "r", "a", "m", "_">>
S_param_dash == <<"-", "-", "p", "a", "r", "a", "m", "-">>
S_host == <<"-", "-", "h", "o", "s", "t">>
S_h == <<"-", "h">>
S_host_eq == <<"-", "-", "h", "o", "s", "t", "=">>
S_port == <<"-", "-", "p", "o", "r", "t">>
S_port_eq == <<"-", "-", "p", "o", "r", "t", "=">>
S_password == <<"-", "-", "p", "a", "s", "s", "w", "o", "r", "d">>
S_allow_repeated_settings == <<"-", "-", "a", "l", "l", "o", "w", "_", "r", "e", "p", "e", "a", "t", "e", "d", "_", "s", "e", "t", "t", "i", "n", "g", "s">>
S_allow_merge_tree_settings == <<"-", "-", "a", "l", "l", "o", "w", "_", "m", "e", "r", "g", "e", "_", "t", "r", "e", "e", "_", "s", "e", "t", "t", "i", "n", "g", "s">>

\* options of an external group with the value after an equal sign (Client.cpp:995)
IsExternalOptionWithEqual(arg) ==
    \/ StartsWith(arg, S_file_eq) \/ StartsWith(arg, S_name_eq)
    \/ StartsWith(arg, S_format_eq) \/ StartsWith(arg, S_structure_eq)
    \/ StartsWith(arg, S_types_eq)

\* options of an external group with the value after whitespace (Client.cpp:1001)
IsExternalOption(arg) ==
    arg = S_file \/ arg = S_name \/ arg = S_format \/ arg = S_structure \/ arg = S_types

\* a check that forgets --types
MustBeInExternalGroup_NoTypes(arg) ==
    arg = S_file \/ arg = S_name \/ arg = S_structure

\* options refused outside an external group (Client.cpp:1016)
MustBeInExternalGroup(arg) ==
    arg = S_file \/ arg = S_name \/ arg = S_structure \/ arg = S_types

IsParamArg(arg) == StartsWith(arg, S_param_underline) \/ StartsWith(arg, S_param_dash)

IsHostArg(arg) == StartsWith(arg, S_host) \/ StartsWith(arg, S_h)

IsPortArg(arg) == StartsWith(arg, S_port)

\* std::string_view::find_first_of('='), 0 for npos, else the 1-based position
FindEqual(str) ==
    IF \E i \in 1..Len(str) : str[i] = "="
    THEN CHOOSE i \in 1..Len(str) : str[i] = "=" /\ \A j \in 1..(i - 1) : str[j] # "="
    ELSE 0

\* std::map::emplace: an existing key keeps its value
Emplace(map, key, value) ==
    IF \E e \in map : e.name = key THEN map ELSE map \cup {[name |-> key, value |-> value]}

\* vector.back().emplace_back(x) on the list of external groups
AppendToBack(groups, x) ==
    [groups EXCEPT ![Len(groups)] = Append(groups[Len(groups)], x)]

\* the local state of readArguments
TokState ==
    [arg_num |-> arg_num, in_external_group |-> in_external_group,
     prev_host_arg |-> prev_host_arg, prev_port_arg |-> prev_port_arg,
     common_arguments |-> common_arguments,
     external_tables_arguments |-> external_tables_arguments,
     hosts_and_ports_arguments |-> hosts_and_ports_arguments,
     query_parameters |-> query_parameters,
     allow_settings |-> allow_settings,
     error |-> "", stop |-> FALSE]

Throw(t, code) == [t EXCEPT !.error = code]

\* a host branch that forgets prev_port_arg.clear()
OnHostArg_KeepsPendingPort(t, host_arg) ==
    IF t.prev_port_arg # <<>>
    THEN [t EXCEPT !.hosts_and_ports_arguments = Append(@, <<host_arg, t.prev_port_arg>>)]
    ELSE [t EXCEPT !.hosts_and_ports_arguments =
                        IF t.prev_host_arg # <<>> THEN Append(@, <<t.prev_host_arg>>) ELSE @,
                   !.prev_host_arg = host_arg]

\* Client.cpp:1059-1072, a host argument with its value attached
OnHostArg(t, host_arg) ==
    IF t.prev_port_arg # <<>>
    THEN [t EXCEPT !.hosts_and_ports_arguments = Append(@, <<host_arg, t.prev_port_arg>>),
                   !.prev_port_arg = <<>>]
    ELSE [t EXCEPT !.hosts_and_ports_arguments =
                        IF t.prev_host_arg # <<>> THEN Append(@, <<t.prev_host_arg>>) ELSE @,
                   !.prev_host_arg = host_arg]

\* a port branch that never looks at the pending host
OnPortArg_IgnoresPendingHost(t, port_arg) ==
    [t EXCEPT !.hosts_and_ports_arguments =
                   IF t.prev_port_arg # <<>> THEN Append(@, <<t.prev_port_arg>>) ELSE @,
              !.prev_port_arg = port_arg]

\* a port branch that overwrites a pending port instead of emitting it alone
OnPortArg_OverwritesPendingPort(t, port_arg) ==
    IF t.prev_host_arg # <<>>
    THEN [t EXCEPT !.hosts_and_ports_arguments = Append(@, <<port_arg, t.prev_host_arg>>),
                   !.prev_host_arg = <<>>]
    ELSE [t EXCEPT !.prev_port_arg = port_arg]

\* Client.cpp:1088-1101, a port argument with its value attached
OnPortArg(t, port_arg) ==
    IF t.prev_host_arg # <<>>
    THEN [t EXCEPT !.hosts_and_ports_arguments = Append(@, <<port_arg, t.prev_host_arg>>),
                   !.prev_host_arg = <<>>]
    ELSE [t EXCEPT !.hosts_and_ports_arguments =
                        IF t.prev_port_arg # <<>> THEN Append(@, <<t.prev_port_arg>>) ELSE @,
                   !.prev_port_arg = port_arg]

\* a parameter branch that leaves the value of the space form to the next iteration
ScanParam_ValueRescanned(args, t) ==
    LET arg == args[t.arg_num]
        param_continuation == SubSeq(arg, Len(S_param_underline) + 1, Len(arg))
        equal_pos == FindEqual(param_continuation)
    IN  IF equal_pos = 0
        THEN IF t.arg_num + 1 > Len(args)
             THEN Throw([t EXCEPT !.arg_num = @ + 1], "BAD_ARGUMENTS")
             ELSE [t EXCEPT !.arg_num = @ + 1,
                            !.query_parameters =
                                Emplace(@, param_continuation, args[t.arg_num + 1])]
        ELSE IF equal_pos = 1
        THEN Throw(t, "BAD_ARGUMENTS")
        ELSE [t EXCEPT !.arg_num = @ + 1,
                       !.query_parameters =
                           Emplace(@, SubSeq(param_continuation, 1, equal_pos - 1),
                                   SubSeq(param_continuation, equal_pos + 1,
                                          Len(param_continuation)))]

\* Client.cpp:1020-1042, --param_name value and --param_name=value
ScanParam(args, t) ==
    LET arg == args[t.arg_num]
        param_continuation == SubSeq(arg, Len(S_param_underline) + 1, Len(arg))
        equal_pos == FindEqual(param_continuation)
    IN  IF equal_pos = 0
        THEN IF t.arg_num + 1 > Len(args)
             THEN Throw([t EXCEPT !.arg_num = @ + 1], "BAD_ARGUMENTS")
             ELSE [t EXCEPT !.arg_num = @ + 2,
                            !.query_parameters =
                                Emplace(@, param_continuation, args[t.arg_num + 1])]
        ELSE IF equal_pos = 1
        THEN Throw(t, "BAD_ARGUMENTS")
        ELSE [t EXCEPT !.arg_num = @ + 1,
                       !.query_parameters =
                           Emplace(@, SubSeq(param_continuation, 1, equal_pos - 1),
                                   SubSeq(param_continuation, equal_pos + 1,
                                          Len(param_continuation)))]

\* Client.cpp:1043-1073
ScanHost(args, t) ==
    LET arg == args[t.arg_num]
    IN  IF arg = S_host \/ arg = S_h
        THEN IF t.arg_num + 1 > Len(args)
             THEN Throw([t EXCEPT !.arg_num = @ + 1], "BAD_ARGUMENTS")
             ELSE OnHostArg([t EXCEPT !.arg_num = @ + 2], S_host_eq \o args[t.arg_num + 1])
        ELSE OnHostArg([t EXCEPT !.arg_num = @ + 1], arg)

\* Client.cpp:1074-1102
ScanPort(args, t) ==
    LET arg == args[t.arg_num]
    IN  IF arg = S_port
        THEN IF t.arg_num + 1 > Len(args)
             THEN Throw([t EXCEPT !.arg_num = @ + 1], "BAD_ARGUMENTS")
             ELSE OnPortArg([t EXCEPT !.arg_num = @ + 2], S_port_eq \o args[t.arg_num + 1])
        ELSE OnPortArg([t EXCEPT !.arg_num = @ + 1], arg)

\* a test that only sees a --password at the very end of the command line
IsPasswordWithoutValue_EndOnly(args, n) ==
    /\ args[n] = S_password
    /\ n + 1 > Len(args)

\* Client.cpp:1107, --password without a value
IsPasswordWithoutValue(args, n) ==
    /\ args[n] = S_password
    /\ (n + 1 > Len(args) \/ StartsWith(args[n + 1], <<"-">>))

\* Client.cpp:1013-1116, the branch of an argument that belongs to no external group
ScanCommon(args, t0) ==
    LET t == [t0 EXCEPT !.in_external_group = FALSE]
        arg == args[t.arg_num]
    IN  IF MustBeInExternalGroup(arg) THEN Throw(t, "BAD_ARGUMENTS")
        ELSE IF IsParamArg(arg) THEN ScanParam(args, t)
        ELSE IF IsHostArg(arg) THEN ScanHost(args, t)
        ELSE IF IsPortArg(arg) THEN ScanPort(args, t)
        ELSE IF arg = S_allow_repeated_settings \/ arg = S_allow_merge_tree_settings
        THEN [t EXCEPT !.arg_num = @ + 1, !.allow_settings = @ \cup {arg}]
        ELSE IF IsPasswordWithoutValue(args, t.arg_num)
        THEN [t EXCEPT !.arg_num = @ + 1,
                       !.common_arguments = @ \o <<arg, ASK_PASSWORD>>]
        ELSE [t EXCEPT !.arg_num = @ + 1, !.common_arguments = Append(@, arg)]

\* Client.cpp:980-1117, one iteration of the loop over argv
ScanOne(args, t) ==
    LET arg == args[t.arg_num]
    IN  IF arg = S_external
        THEN [t EXCEPT !.arg_num = @ + 1,
                       !.in_external_group = TRUE,
                       !.external_tables_arguments = Append(@, << <<>> >>)]
        ELSE IF t.in_external_group /\ IsExternalOptionWithEqual(arg)
        THEN [t EXCEPT !.arg_num = @ + 1,
                       !.external_tables_arguments = AppendToBack(@, arg)]
        ELSE IF t.in_external_group /\ IsExternalOption(arg)
        THEN IF t.arg_num + 1 <= Len(args)
             THEN [t EXCEPT !.arg_num = @ + 2,
                            !.external_tables_arguments =
                                AppendToBack(AppendToBack(@, arg), args[t.arg_num + 1])]
             ELSE [t EXCEPT !.stop = TRUE]
        ELSE ScanCommon(args, t)

conn_idle == UNCHANGED conn_vars

\* Client.cpp:964-966: the first argument was taken as a connection string.
\* tryParseConnectionString takes an argument that starts with the scheme.
has_connection_string ==
    argv # <<>> /\ StartsWith(argv[1], <<"c", "l", "i", "c", "k", "h", "o", "u", "s", "e", ":">>)

\* One iteration of the loop of readArguments. After a connection string,
\* checkIfCmdLineOptionCanBeUsedWithConnectionString (Client.cpp:984-985)
\* throws for the arguments it rejects and returns for the others.
ScanArgument ==
    /\ tpc = "scan"
    /\ arg_num <= Len(argv)
    /\ \E rejected \in (IF has_connection_string THEN BOOLEAN ELSE {FALSE}) :
       LET t == IF rejected THEN Throw(TokState, "BAD_ARGUMENTS")
                ELSE ScanOne(argv, TokState)
       IN  /\ arg_num' = t.arg_num
           /\ in_external_group' = t.in_external_group
           /\ prev_host_arg' = t.prev_host_arg
           /\ prev_port_arg' = t.prev_port_arg
           /\ common_arguments' = t.common_arguments
           /\ external_tables_arguments' = t.external_tables_arguments
           /\ hosts_and_ports_arguments' = t.hosts_and_ports_arguments
           /\ query_parameters' = t.query_parameters
           /\ allow_settings' = t.allow_settings
           /\ targ_error' = t.error
           /\ tpc' = IF t.error # "" THEN "failed"
                     ELSE IF t.stop THEN "flush"
                     ELSE "scan"
    /\ UNCHANGED <<argv, parsed_hosts_and_ports>>
    /\ conn_idle
    /\ ses_idle
    /\ res_idle

\* The loop is over: it ran out of arguments.
ScanEnd ==
    /\ tpc = "scan"
    /\ arg_num > Len(argv)
    /\ tpc' = "flush"
    /\ UNCHANGED <<argv, arg_num, in_external_group, prev_host_arg, prev_port_arg,
                   common_arguments, external_tables_arguments, hosts_and_ports_arguments,
                   query_parameters, allow_settings, parsed_hosts_and_ports, targ_error>>
    /\ conn_idle
    /\ ses_idle
    /\ res_idle

\* an end of readArguments that emits a pending host and forgets a pending port
FlushPending_DropsPendingPort ==
    /\ tpc = "flush"
    /\ hosts_and_ports_arguments' =
          hosts_and_ports_arguments
             \o (IF prev_host_arg # <<>> THEN << <<prev_host_arg>> >> ELSE <<>>)
    /\ tpc' = "options"
    /\ UNCHANGED <<argv, arg_num, in_external_group, prev_host_arg, prev_port_arg,
                   common_arguments, external_tables_arguments, query_parameters,
                   allow_settings, parsed_hosts_and_ports, targ_error>>
    /\ conn_idle
    /\ ses_idle
    /\ res_idle

\* Client.cpp:1118-1121, the pending host or port is emitted alone.
FlushPending ==
    /\ tpc = "flush"
    /\ hosts_and_ports_arguments' =
          (hosts_and_ports_arguments
             \o (IF prev_host_arg # <<>> THEN << <<prev_host_arg>> >> ELSE <<>>))
             \o (IF prev_port_arg # <<>> THEN << <<prev_port_arg>> >> ELSE <<>>)
    /\ tpc' = "options"
    /\ UNCHANGED <<argv, arg_num, in_external_group, prev_host_arg, prev_port_arg,
                   common_arguments, external_tables_arguments, query_parameters,
                   allow_settings, parsed_hosts_and_ports, targ_error>>
    /\ conn_idle
    /\ ses_idle
    /\ res_idle

\* ------------------------------------------------------------------ Client::processOptions

IsDigit(c) == \E d \in 1..10 : Digits[d] = c

DigitValue(c) == (CHOOSE d \in 1..10 : Digits[d] = c) - 1

RECURSIVE ParseUInt(_)
\* the decimal value of a non-empty string of digits
ParseUInt(str) ==
    IF Len(str) = 1 THEN DigitValue(str[1])
    ELSE 10 * ParseUInt(SubSeq(str, 1, Len(str) - 1)) + DigitValue(str[Len(str)])

\* po::value<UInt16>: the text is a number that fits 16 bits
IsUInt16(str) ==
    /\ str # <<>>
    /\ \A i \in 1..Len(str) : IsDigit(str[i])
    /\ Len(str) <= 5
    /\ ParseUInt(str) <= 65535

\* one token of a host/port group as the options "host,h" and "port" read it:
\* --host=<value>, -h<value> or --port=<number>
IsHostOption(el) == StartsWith(el, S_host_eq) \/ (StartsWith(el, S_h) /\ Len(el) > Len(S_h))
HostValue(el) ==
    IF StartsWith(el, S_host_eq) THEN SubSeq(el, Len(S_host_eq) + 1, Len(el))
    ELSE SubSeq(el, Len(S_h) + 1, Len(el))
IsPortOption(el) ==
    StartsWith(el, S_port_eq) /\ IsUInt16(SubSeq(el, Len(S_port_eq) + 1, Len(el)))
PortValue(el) == ParseUInt(SubSeq(el, Len(S_port_eq) + 1, Len(el)))

\* the command_line_parser accepts every token of the group
GroupParses(group) == \A i \in 1..Len(group) : IsHostOption(group[i]) \/ IsPortOption(group[i])

\* Client.cpp:771-778: host defaults to "localhost", port is optional
ParseHostAndPort(group) ==
    [host |-> IF \E i \in 1..Len(group) : IsHostOption(group[i])
              THEN HostValue(group[CHOOSE i \in 1..Len(group) : IsHostOption(group[i])])
              ELSE LOCALHOST,
     port |-> IF \E i \in 1..Len(group) : IsPortOption(group[i])
              THEN PortValue(group[CHOOSE i \in 1..Len(group) : IsPortOption(group[i])])
              ELSE NoPort]

\* The loop of processOptions over hosts_and_ports_arguments.
ProcessOptions ==
    /\ tpc = "options"
    /\ IF \A g \in 1..Len(hosts_and_ports_arguments) : GroupParses(hosts_and_ports_arguments[g])
       THEN /\ parsed_hosts_and_ports' =
                  [g \in 1..Len(hosts_and_ports_arguments) |->
                      ParseHostAndPort(hosts_and_ports_arguments[g])]
            /\ tpc' = "done"
            /\ UNCHANGED targ_error
       ELSE /\ targ_error' = "program_options::error"
            /\ tpc' = "failed"
            /\ UNCHANGED parsed_hosts_and_ports
    /\ UNCHANGED <<argv, arg_num, in_external_group, prev_host_arg, prev_port_arg,
                   common_arguments, external_tables_arguments, hosts_and_ports_arguments,
                   query_parameters, allow_settings>>
    /\ conn_idle
    /\ ses_idle
    /\ res_idle

\* ------------------------------------------------------------------ specifications of the tokenizer

\* the bootstrap does not run while the command line is read
ConnIdle ==
    /\ pc = "idle"
    /\ pass = 0
    /\ is_interactive = FALSE
    /\ build = [use_jwt |-> TRUE, use_ssh |-> TRUE]
    /\ use_client_time_zone = FALSE
    /\ config = EmptyConfig
    /\ hosts_and_ports = <<>>
    /\ attempted_address_index = 0
    /\ connection_parameters = NoParameters
    /\ connection = 0
    /\ exception = NoException
    /\ server_display_name = <<>>
    /\ time_zone_adopted = <<"l", "o", "c", "a", "l">>
    /\ warnings = <<>>
    /\ attempt_log = <<>>
    /\ thrown = <<>>

\* readArguments is entered with the argument vector args
TokStart(args) ==
    /\ tpc = "scan"
    /\ argv = args
    /\ arg_num = 1
    /\ in_external_group = FALSE
    /\ prev_host_arg = <<>>
    /\ prev_port_arg = <<>>
    /\ common_arguments = <<>>
    /\ external_tables_arguments = <<>>
    /\ hosts_and_ports_arguments = <<>>
    /\ query_parameters = {}
    /\ allow_settings = {}
    /\ parsed_hosts_and_ports = <<>>
    /\ targ_error = ""

NextArgs ==
    \/ ScanArgument
    \/ ScanEnd
    \/ FlushPending
    \/ ProcessOptions

\* longest argument vector of SpecArgs
MaxArgs == 3

\* tokens of every kind readArguments tells apart, and values
ArgTokens ==
    {<<"-", "-", "h", "o", "s", "t">>,
     <<"-", "h">>,
     <<"-", "-", "h", "o", "s", "t", "=", "a">>,
     <<"-", "-", "p", "o", "r", "t">>,
     <<"-", "-", "p", "o", "r", "t", "=", "1">>,
     <<"a">>,
     <<"2">>,
     <<"-", "-", "p", "a", "s", "s", "w", "o", "r", "d">>,
     <<"-", "-", "e", "x", "t", "e", "r", "n", "a", "l">>,
     <<"-", "-", "f", "i", "l", "e">>,
     <<"-", "-", "n", "a", "m", "e", "=", "a">>,
     <<"-", "-", "f", "o", "r", "m", "a", "t">>,
     <<"-", "-", "p", "a", "r", "a", "m", "_", "x">>,
     <<"-", "-", "p", "a", "r", "a", "m", "-", "y", "=", "1">>,
     <<"-", "q">>,
     <<"-", "-", "a", "l", "l", "o", "w", "_", "r", "e", "p", "e", "a", "t", "e", "d", "_", "s", "e", "t", "t", "i", "n", "g", "s">>}

InitArgs ==
    /\ ConnIdle
    /\ SesIdle
    /\ ResIdle
    /\ \E args \in SeqsUpTo(ArgTokens, MaxArgs) : TokStart(args)

SpecArgs == InitArgs /\ [][NextArgs]_vars


\* the argument vector made of the given (flag, value) pairs
RECURSIVE Flatten(_)
Flatten(pairs) == IF pairs = <<>> THEN <<>> ELSE Head(pairs) \o Flatten(Tail(pairs))

\* most --host / --port flags of SpecHostPort
MaxPairs == 3

\* --host and --port flags with their values
HostPortPairs ==
    {<<S_host, <<"a">> >>, <<S_host, <<"b">> >>, <<S_port, <<"1">> >>, <<S_port, <<"2">> >>}

\* the command line is an interleaving of --host <host> and --port <port>
InitHostPort ==
    /\ ConnIdle
    /\ SesIdle
    /\ ResIdle
    /\ \E pairs \in SeqsUpTo(HostPortPairs, MaxPairs) : TokStart(Flatten(pairs))

SpecHostPort == InitHostPort /\ [][NextArgs]_vars

\* longest argument vector of SpecExternal
MaxExtArgs == 3

\* the options of external groups in both forms, and tokens of the other kinds
ExtTokens ==
    {<<"-", "-", "e", "x", "t", "e", "r", "n", "a", "l">>,
     <<"-", "-", "f", "i", "l", "e">>,
     <<"-", "-", "n", "a", "m", "e">>,
     <<"-", "-", "s", "t", "r", "u", "c", "t", "u", "r", "e">>,
     <<"-", "-", "t", "y", "p", "e", "s">>,
     <<"-", "-", "f", "o", "r", "m", "a", "t">>,
     <<"-", "-", "f", "i", "l", "e", "=", "a">>,
     <<"-", "-", "n", "a", "m", "e", "=", "a">>,
     <<"-", "-", "s", "t", "r", "u", "c", "t", "u", "r", "e", "=", "a">>,
     <<"-", "-", "t", "y", "p", "e", "s", "=", "a">>,
     <<"-", "q">>,
     <<"a">>,
     <<"-", "-", "h", "o", "s", "t">>,
     <<"-", "-", "p", "o", "r", "t">>,
     <<"-", "-", "p", "a", "r", "a", "m", "_", "x">>}

InitExternal ==
    /\ ConnIdle
    /\ SesIdle
    /\ ResIdle
    /\ \E args \in SeqsUpTo(ExtTokens, MaxExtArgs) : TokStart(args)

SpecExternal == InitExternal /\ [][NextArgs]_vars

\* ------------------------------------------------------------------ properties of the tokenizer

\* readArguments returned without throwing
Returned == tpc \in {"flush", "options", "done"}

\* an iteration of the loop scans argv[arg_num]
Scanning == tpc = "scan" /\ arg_num <= Len(argv)

\* the host or port token scanned now, with its value attached
AttachedArg(flag_eq) ==
    IF Len(argv[arg_num]) < Len(flag_eq) /\ arg_num < Len(argv)
    THEN flag_eq \o argv[arg_num + 1]
    ELSE argv[arg_num]

\* C6: a host token is emitted with the pending port, which is cleared, or else
\* becomes the pending host after a pending host is emitted alone; a port token
\* symmetrically; a token of another kind changes neither the pending host nor
\* the pending port (nor the groups emitted).
C6_PairingStep ==
    [][(Scanning /\ tpc' = "scan") =>
         LET arg == argv[arg_num]
             is_host == StartsWith(arg, <<"-", "-", "h", "o", "s", "t">>)
                           \/ StartsWith(arg, <<"-", "h">>)
             is_port == StartsWith(arg, <<"-", "-", "p", "o", "r", "t">>)
             host_arg == AttachedArg(<<"-", "-", "h", "o", "s", "t", "=">>)
             port_arg == AttachedArg(<<"-", "-", "p", "o", "r", "t", "=">>)
             groups == hosts_and_ports_arguments
         IN  IF is_host
             THEN IF prev_port_arg # <<>>
                  THEN /\ hosts_and_ports_arguments' = Append(groups, <<host_arg, prev_port_arg>>)
                       /\ prev_port_arg' = <<>>
                       /\ prev_host_arg' = prev_host_arg
                  ELSE /\ hosts_and_ports_arguments' =
                             IF prev_host_arg # <<>>
                             THEN Append(groups, <<prev_host_arg>>) ELSE groups
                       /\ prev_host_arg' = host_arg
                       /\ prev_port_arg' = prev_port_arg
             ELSE IF is_port
             THEN IF prev_host_arg # <<>>
                  THEN /\ hosts_and_ports_arguments' = Append(groups, <<port_arg, prev_host_arg>>)
                       /\ prev_host_arg' = <<>>
                       /\ prev_port_arg' = prev_port_arg
                  ELSE /\ hosts_and_ports_arguments' =
                             IF prev_port_arg # <<>>
                             THEN Append(groups, <<prev_port_arg>>) ELSE groups
                       /\ prev_port_arg' = port_arg
                       /\ prev_host_arg' = prev_host_arg
             ELSE /\ prev_host_arg' = prev_host_arg
                  /\ prev_port_arg' = prev_port_arg
                  /\ hosts_and_ports_arguments' = groups]_vars

\* a host met a pending port and was emitted with it, and the host after it
\* is pending
C6_Witness ==
    /\ tpc = "flush"
    /\ Len(argv) = 3
    /\ StartsWith(argv[1], S_port)
    /\ Len(hosts_and_ports_arguments) = 1
    /\ Len(hosts_and_ports_arguments[1]) = 2
    /\ hosts_and_ports_arguments[1][2] = argv[1]
    /\ prev_host_arg # <<>>
    /\ prev_port_arg = <<>>

\* the host and port flags of an interleaving, as records [kind, value]
HostPortFlags ==
    [k \in 1..(Len(argv) \div 2) |->
        [kind |-> IF argv[2 * k - 1] = <<"-", "-", "h", "o", "s", "t">> THEN "host" ELSE "port",
         value |-> argv[2 * k]]]

PortNumber(value) == IF value = <<"1">> THEN 1 ELSE 2

EntryOfPair(x, y) ==
    [host |-> IF x.kind = "host" THEN x.value ELSE y.value,
     port |-> PortNumber(IF x.kind = "port" THEN x.value ELSE y.value)]

EntryOfOne(x) ==
    IF x.kind = "host"
    THEN [host |-> x.value, port |-> 0]
    ELSE [host |-> <<"l", "o", "c", "a", "l", "h", "o", "s", "t">>, port |-> PortNumber(x.value)]

\* Two neighbouring flags of different kinds make one entry; a flag whose
\* right neighbour is of its own kind, or missing, makes an entry alone.
RECURSIVE PairNeighbours(_)
PairNeighbours(flags) ==
    IF flags = <<>> THEN <<>>
    ELSE IF Len(flags) >= 2 /\ flags[1].kind # flags[2].kind
    THEN <<EntryOfPair(flags[1], flags[2])>> \o PairNeighbours(SubSeq(flags, 3, Len(flags)))
    ELSE <<EntryOfOne(flags[1])>> \o PairNeighbours(Tail(flags))

\* the three command lines of the claim
C7_Examples ==
    /\ argv = <<S_host, <<"a">>, S_port, <<"1">>, S_host, <<"b">> >>
         => parsed_hosts_and_ports = <<[host |-> <<"a">>, port |-> 1],
                                       [host |-> <<"b">>, port |-> 0]>>
    /\ argv = <<S_port, <<"1">>, S_host, <<"a">> >>
         => parsed_hosts_and_ports = <<[host |-> <<"a">>, port |-> 1]>>
    /\ argv = <<S_host, <<"a">>, S_host, <<"b">> >>
         => parsed_hosts_and_ports = <<[host |-> <<"a">>, port |-> 0],
                                       [host |-> <<"b">>, port |-> 0]>>

\* the index, among the host and port flags, of the first flag of group g
RECURSIVE GroupStart(_)
GroupStart(g) ==
    IF g = 1 THEN 1 ELSE GroupStart(g - 1) + Len(hosts_and_ports_arguments[g - 1])

PasswordsWithoutValue ==
    {i \in 1..Len(argv) :
        /\ argv[i] = <<"-", "-", "p", "a", "s", "s", "w", "o", "r", "d">>
        /\ (i = Len(argv) \/ StartsWith(argv[i + 1], <<"-">>))}

\* the --password tokens of the common arguments followed by the sentinel
PasswordsWithSentinel ==
    {j \in 1..(Len(common_arguments) - 1) :
        /\ common_arguments[j] = <<"-", "-", "p", "a", "s", "s", "w", "o", "r", "d">>
        /\ common_arguments[j + 1] = <<"\n">>}

\* C8 as stated: every --password of the argument vector that is followed by
\* the end of input or by a token starting with '-' is in the common arguments
\* with the sentinel after it.
C8_EveryPasswordGetsSentinel ==
    Returned => Cardinality(PasswordsWithSentinel) = Cardinality(PasswordsWithoutValue)

\* C8, amended: a --password that is scanned as an option (not consumed as the
\* value of the option before it) and is followed by the end of input or by a
\* token starting with '-' is emitted followed by the sentinel, and the scan
\* goes on with the very next token; in the common arguments a --password is
\* followed by the sentinel or by a token that does not start with '-'.
C8_ScannedPasswordGetsSentinel ==
    /\ [][(Scanning /\ arg_num \in PasswordsWithoutValue) =>
            /\ common_arguments' =
                  common_arguments \o <<argv[arg_num], <<"\n">> >>
            /\ arg_num' = arg_num + 1
            /\ tpc' = "scan"]_vars
    /\ [](\A j \in 1..Len(common_arguments) :
            common_arguments[j] = <<"-", "-", "p", "a", "s", "s", "w", "o", "r", "d">> =>
              IF j < Len(common_arguments)
              THEN \/ common_arguments[j + 1] = <<"\n">>
                   \/ ~StartsWith(common_arguments[j + 1], <<"-">>)
              ELSE Scanning /\ ~StartsWith(argv[arg_num], <<"-">>))

\* --password -q: the sentinel is in between and -q is an argument of its own
C8_Witness ==
    /\ tpc = "done"
    /\ Len(argv) = 2
    /\ common_arguments = <<S_password, ASK_PASSWORD, <<"-", "q">> >>

\* --file, --name, --structure, --types with the value after whitespace
IsGroupOnlyOption(arg) ==
    arg \in {<<"-", "-", "f", "i", "l", "e">>, <<"-", "-", "n", "a", "m", "e">>,
             <<"-", "-", "s", "t", "r", "u", "c", "t", "u", "r", "e">>,
             <<"-", "-", "t", "y", "p", "e", "s">>}

\* the same options with the value after an equal sign
IsGroupOnlyOptionWithEqual(arg) ==
    \E i \in 1..Len(arg) : arg[i] = "=" /\ IsGroupOnlyOption(SubSeq(arg, 1, i - 1))

\* C9 as stated: outside an active external group the four options fail with
\* BAD_ARGUMENTS in either form; inside an active group they are appended to
\* the most recent group without an error.
C9_BothFormsChecked ==
    [][(Scanning /\ (IsGroupOnlyOption(argv[arg_num])
                       \/ IsGroupOnlyOptionWithEqual(argv[arg_num]))) =>
         IF ~in_external_group
         THEN tpc' = "failed" /\ targ_error' = "BAD_ARGUMENTS"
         ELSE /\ targ_error' = ""
              /\ Len(external_tables_arguments') = Len(external_tables_arguments)
              /\ \E rest \in {<<>>} \cup {<<argv[n]>> : n \in {arg_num + 1} \cap 1..Len(argv)} :
                   external_tables_arguments'[Len(external_tables_arguments)] =
                      (external_tables_arguments[Len(external_tables_arguments)]
                          \o <<argv[arg_num]>>) \o rest]_vars

\* C9, amended: outside an active external group the four options fail with
\* BAD_ARGUMENTS in the form "--flag value" only; in the form "--flag=value"
\* they are passed on with the common arguments. Inside an active group the
\* token is appended to the most recent group, with its value in the form
\* "--flag value"; as the last argument in that form it ends the scan and is
\* dropped.
C9_SpaceFormChecked ==
    [][Scanning =>
         LET arg == argv[arg_num]
             back == Len(external_tables_arguments)
         IN  /\ (IsGroupOnlyOption(arg) /\ ~in_external_group)
                  => (tpc' = "failed" /\ targ_error' = "BAD_ARGUMENTS")
             /\ (IsGroupOnlyOptionWithEqual(arg) /\ ~in_external_group)
                  => /\ tpc' = "scan"
                     /\ targ_error' = ""
                     /\ common_arguments' = Append(common_arguments, arg)
                     /\ external_tables_arguments' = external_tables_arguments
             /\ (IsGroupOnlyOptionWithEqual(arg) /\ in_external_group)
                  => /\ tpc' = "scan"
                     /\ Len(external_tables_arguments') = back
                     /\ external_tables_arguments'[back] =
                           Append(external_tables_arguments[back], arg)
             /\ (IsGroupOnlyOption(arg) /\ in_external_group /\ arg_num < Len(argv))
                  => /\ tpc' = "scan"
                     /\ Len(external_tables_arguments') = back
                     /\ external_tables_arguments'[back] =
                           external_tables_arguments[back] \o <<arg, argv[arg_num + 1]>>
             /\ (IsGroupOnlyOption(arg) /\ in_external_group /\ arg_num = Len(argv))
                  => /\ tpc' = "flush"
                     /\ targ_error' = ""
                     /\ external_tables_arguments' = external_tables_arguments]_vars

\* --external -q --types: the group was closed by -q, so --types is refused
C9_Witness ==
    /\ tpc = "failed"
    /\ targ_error = "BAD_ARGUMENTS"
    /\ argv = <<S_external, <<"-", "q">>, S_types>>
    /\ arg_num = 3

\* C10 as stated: when the last token is scanned as a flag that takes a value
\* (--host, -h, --port, --param_<name> without '=', or one of the five options
\* of an active external group), readArguments fails with BAD_ARGUMENTS.
C10_MissingValueIsAnError ==
    [][(Scanning /\ arg_num = Len(argv)
          /\ LET arg == argv[arg_num]
             IN  \/ arg = <<"-", "-", "h", "o", "s", "t">>
                 \/ arg = <<"-", "h">>
                 \/ arg = <<"-", "-", "p", "o", "r", "t">>
                 \/ (StartsWith(arg, <<"-", "-", "p", "a", "r", "a", "m", "_">>)
                       /\ \A i \in 1..Len(arg) : arg[i] # "=")
                 \/ (in_external_group
                       /\ (IsGroupOnlyOption(arg)
                             \/ arg = <<"-", "-", "f", "o", "r", "m", "a", "t">>)))
         => (tpc' = "failed" /\ targ_error' = "BAD_ARGUMENTS")]_vars


\* ------------------------------------------------------------------ query parameters

\* longest argument vector of SpecParams
MaxParamArgs == 3

\* query parameters in both forms, twice the same name, and tokens of the other kinds
ParamTokens ==
    {<<"-", "-", "p", "a", "r", "a", "m", "_", "x">>,
     <<"-", "-", "p", "a", "r", "a", "m", "_", "x", "=", "1">>,
     <<"-", "-", "p", "a", "r", "a", "m", "-", "x", "=", "2">>,
     <<"-", "-", "p", "a", "r", "a", "m", "_", "y", "=", "1">>,
     <<"-", "-", "h", "o", "s", "t">>,
     <<"-", "-", "h", "o", "s", "t", "=", "a">>,
     <<"-", "-", "p", "o", "r", "t">>,
     <<"-", "-", "e", "x", "t", "e", "r", "n", "a", "l">>,
     <<"-", "-", "f", "i", "l", "e">>,
     <<"a">>,
     <<"-", "q">>}

InitParams ==
    /\ ConnIdle
    /\ SesIdle
    /\ ResIdle
    /\ \E args \in SeqsUpTo(ParamTokens, MaxParamArgs) : TokStart(args)

SpecParams == InitParams /\ [][NextArgs]_vars

\* the token is --param_<name>... or --param-<name>...
IsParamToken(arg) ==
    StartsWith(arg, <<"-", "-", "p", "a", "r", "a", "m", "_">>)
       \/ StartsWith(arg, <<"-", "-", "p", "a", "r", "a", "m", "-">>)

\* the text after --param_
ParamText(arg) == SubSeq(arg, 9, Len(arg))

\* the form --param_<name>=<value>
IsParamWithEqual(arg) == IsParamToken(arg) /\ FindEqual(ParamText(arg)) > 1

\* the form --param_<name>, value in the next token
IsParamWithSpace(arg) == IsParamToken(arg) /\ FindEqual(ParamText(arg)) = 0

\* name and value of the parameter given at position i of argv
ParamAt(i) ==
    IF IsParamWithEqual(argv[i])
    THEN [name |-> SubSeq(ParamText(argv[i]), 1, FindEqual(ParamText(argv[i])) - 1),
          value |-> SubSeq(ParamText(argv[i]), FindEqual(ParamText(argv[i])) + 1,
                           Len(ParamText(argv[i])))]
    ELSE [name |-> ParamText(argv[i]), value |-> argv[i + 1]]

\* C11 as stated: every --param_<name>=<value> token and every
\* --param_<name> <value> pair of the argument vector is in the map of query
\* parameters as name -> value.
C11_EveryParamRecorded ==
    Returned =>
      \A i \in 1..Len(argv) :
         (IsParamWithEqual(argv[i]) \/ (IsParamWithSpace(argv[i]) /\ i < Len(argv)))
            => ParamAt(i) \in query_parameters

\* C11, amended: a --param_<name>=<value> token or --param_<name> <value> pair
\* that is scanned as an option is recorded as name -> value unless the map
\* already has the name, in which case the map is left as it is; either way it
\* adds nothing to the common arguments, the external groups or the host/port
\* groups, the value token of the space form is consumed whatever its text,
\* and the pending host and the pending port stay as they are.
C11_ScannedParamRecordedOnce ==
    /\ [][(Scanning /\ IsParamToken(argv[arg_num]) /\ tpc' = "scan") =>
            /\ arg_num' = arg_num + (IF IsParamWithSpace(argv[arg_num]) THEN 2 ELSE 1)
            /\ query_parameters' =
                  IF \E e \in query_parameters : e.name = ParamAt(arg_num).name
                  THEN query_parameters
                  ELSE query_parameters \cup {ParamAt(arg_num)}
            /\ common_arguments' = common_arguments
            /\ external_tables_arguments' = external_tables_arguments
            /\ hosts_and_ports_arguments' = hosts_and_ports_arguments
            /\ prev_host_arg' = prev_host_arg
            /\ prev_port_arg' = prev_port_arg]_vars
    /\ [](\A e1, e2 \in query_parameters : e1.name = e2.name => e1 = e2)

\* --host=a --param_x --port: --port is the value of x, the host stays pending
\* without a port and nothing else is emitted
C11_Witness ==
    /\ tpc = "flush"
    /\ argv = <<S_host_eq \o <<"a">>, S_param_underline \o <<"x">>, S_port>>
    /\ query_parameters = {[name |-> <<"x">>, value |-> S_port]}
    /\ prev_host_arg = S_host_eq \o <<"a">>
    /\ prev_port_arg = <<>>
    /\ common_arguments = <<>>
    /\ hosts_and_ports_arguments = <<>>


\* ------------------------------------------------------------------ Client::processOptions, configuration part

\* a processOptions that copies no option to the configuration
CopyOption_Dropped(cfg, opts, key) == cfg

\* config().setString / setBool of an option that was given (Client.cpp:798-815)
CopyOption(cfg, opts, key) == IF opts[key] # {} THEN [cfg EXCEPT ![key] = opts[key]] ELSE cfg

\* the configuration after Client.cpp:798-815; the option user has a default
\* value and is copied only when it was given (Client.cpp:806)
CopyOptions(cfg, opts) ==
    LET c1 == CopyOption(cfg, opts, "connection")
        c2 == CopyOption(c1, opts, "secure")
        c3 == CopyOption(c2, opts, "no-secure")
        c4 == CopyOption(c3, opts, "user")
        c5 == CopyOption(c4, opts, "password")
        c6 == CopyOption(c5, opts, "ask-password")
    IN  CopyOption(c6, opts, "ssh-key-file")

\* a check that lets --user and --jwt through together
JwtConflict_Never(opts) == FALSE

\* Client.cpp:826-829: --jwt with a --user that is not defaulted
JwtConflict(opts) == opts["jwt"] # {} /\ opts["user"] # {}

\* Client.cpp:793-839, the options that end up in the configuration; the last
\* of them names the handler of invalid certificates (Client.cpp:833-839).
ProcessOptionsConfig ==
    /\ pc = "process_options"
    /\ LET copied == CopyOptions(config, options)
           with_jwt == IF options["jwt"] # {}
                       THEN Set([copied EXCEPT !["jwt"] = options["jwt"]], "user", <<>>)
                       ELSE copied
       IN  IF JwtConflict(options)
           THEN /\ config' = copied
                /\ exception' = [code |-> "BAD_ARGUMENTS", host_index |-> 0,
                                 step |-> "options"]
                /\ pc' = "aborted"
           ELSE /\ config' =
                     IF options["accept-invalid-certificate"] # {}
                     THEN Set(Set(with_jwt, "openSSL.client.invalidCertificateHandler.name",
                                  "AcceptCertificateHandler"),
                              "openSSL.client.verificationMode", "none")
                     ELSE Set(with_jwt, "openSSL.client.invalidCertificateHandler.name",
                              "RejectCertificateHandler")
                /\ pc' = "initialize"
                /\ UNCHANGED exception
    /\ UNCHANGED <<pass, is_interactive, build, use_client_time_zone, hosts_and_ports,
                   attempted_address_index, connection_parameters, connection,
                   server_display_name, time_zone_adopted, warnings, attempt_log, thrown>>
    /\ tok_idle
    /\ ses_idle
    /\ res_idle

\* ------------------------------------------------------------------ Client::parseConnectionsCredentials

ProfileKeys == {"name", "hostname", "port", "secure", "user", "password", "database",
                "history_file", "history_max_entries", "accept-invalid-certificate",
                "prompt"}

\* Client.cpp:195-197
ExpandHome(history_file, home_path) ==
    IF StartsWith(history_file, <<"~">>) /\ home_path # <<>>
    THEN (home_path \o <<"/">>) \o SubSeq(history_file, 2, Len(history_file))
    ELSE history_file

\* a substitution that looks for the profile of the last host of the list
ConnectionName_LastHost(cfg, connection_name, hosts) ==
    IF connection_name # <<>> THEN connection_name
    ELSE IF hosts = <<>> THEN Get(cfg, "host", LOCALHOST)
    ELSE hosts[Len(hosts)].host

\* Client.cpp:141-156, the name looked for among the profiles
ConnectionName(cfg, connection_name, hosts) ==
    IF connection_name # <<>> THEN connection_name
    ELSE IF hosts = <<>> THEN Get(cfg, "host", LOCALHOST)
    ELSE hosts[1].host

\* Client.cpp:165, config.getString(prefix + ".name", "")
ProfileName(profile) == IF profile["name"] = {} THEN <<>> ELSE CHOOSE v \in profile["name"] : TRUE

\* config.setX(key, config.getX(prefix + "." + key)) when the profile has the key
CopyField(cfg, profile, key) ==
    IF profile[key] # {} THEN [cfg EXCEPT ![key] = profile[key]] ELSE cfg

\* Client.cpp:170-207, the body of the loop for a profile of the wanted name
OverlayProfile(cfg, profile, home_path, max_entries) ==
    LET c1 == Set(cfg, "host", IF profile["hostname"] # {}
                               THEN CHOOSE v \in profile["hostname"] : TRUE
                               ELSE ProfileName(profile))
        c2 == CopyField(c1, profile, "port")
        c3 == IF profile["secure"] = {} THEN c2
              ELSE IF profile["secure"] = {TRUE} THEN Set(c2, "secure", TRUE)
              ELSE Set(c2, "no-secure", TRUE)
        c4 == CopyField(c3, profile, "user")
        c5 == CopyField(c4, profile, "password")
        c6 == CopyField(c5, profile, "database")
        c7 == IF profile["history_file"] = {} THEN c6
              ELSE Set(c6, "history_file",
                       ExpandHome(CHOOSE v \in profile["history_file"] : TRUE, home_path))
        c8 == IF profile["history_max_entries"] = {} THEN c7
              ELSE Set(c7, "history_max_entries", max_entries)
        c9 == CopyField(c8, profile, "accept-invalid-certificate")
    IN  CopyField(c9, profile, "prompt")

\* Client.cpp:161-208, the loop over the keys of connections_credentials
RECURSIVE OverlayProfiles(_, _, _, _, _)
OverlayProfiles(cfg, profiles, wanted, home_path, max_entries) ==
    IF profiles = <<>> THEN cfg
    ELSE OverlayProfiles(IF ProfileName(Head(profiles)) = wanted
                         THEN OverlayProfile(cfg, Head(profiles), home_path, max_entries)
                         ELSE cfg,
                         Tail(profiles), wanted, home_path, max_entries)

\* a final check that also refuses a default name without a profile
NoSuchConnection_DefaultToo(connection_name, connection_found) == ~connection_found

\* Client.cpp:210
NoSuchConnection(connection_name, connection_found) ==
    connection_name # <<>> /\ ~connection_found

\* Client::parseConnectionsCredentials(config, connection_name): the
\* configuration after the substitution and the error thrown, "" if none
parseConnectionsCredentials(cfg, profiles, connection_name, hosts, home_path, max_entries) ==
    LET wanted == ConnectionName(cfg, connection_name, hosts)
        connection_found == \E i \in 1..Len(profiles) : ProfileName(profiles[i]) = wanted
    IN  [config |-> OverlayProfiles(cfg, profiles, wanted, home_path, max_entries),
         error |-> IF NoSuchConnection(connection_name, connection_found)
                   THEN "NO_ELEMENTS_IN_CONFIG" ELSE ""]

\* ------------------------------------------------------------------ Client::initialize

\* a configuration in which the loaded file hides what was set before
LayeredAdd_LoadedFirst(cfg, loaded) ==
    [k \in ConfigKeys |-> IF loaded[k] # {} THEN loaded[k] ELSE cfg[k]]

\* LayeredConfiguration::add(loaded): the loaded configuration is searched
\* after the layer that config().setString writes to, so a key that is already
\* set keeps its value (Client.cpp:295)
LayeredAdd(cfg, loaded) == [k \in ConfigKeys |-> IF cfg[k] # {} THEN cfg[k] ELSE loaded[k]]

\* an initialize that lets the environment win over a user that is already set
EnvironmentDefault_Overrides(cfg, env, key, variable) ==
    IF env[variable] # {} THEN [cfg EXCEPT ![key] = env[variable]] ELSE cfg

\* Client.cpp:319-325: the variable is used when the key is not set anywhere
EnvironmentDefault(cfg, env, key, variable) ==
    IF env[variable] # {} /\ ~Has(cfg, key) THEN [cfg EXCEPT ![key] = env[variable]] ELSE cfg

\* Client.cpp:300-304: config().has("accept-invalid-certificate") is the test
AcceptInvalidCertificate(cfg) ==
    IF Has(cfg, "accept-invalid-certificate")
    THEN Set(Set(cfg, "openSSL.client.invalidCertificateHandler.name",
                 "AcceptCertificateHandler"),
             "openSSL.client.verificationMode", "none")
    ELSE cfg

\* Client::initialize: the configuration file is loaded, its
\* connections_credentials are substituted, it is added to the configuration,
\* the handler of invalid certificates is chosen, and the environment fills in
\* a missing user and password.
Initialize ==
    /\ pc = "initialize"
    /\ LET home_path == Get(environment, "HOME", <<>>)
           r == parseConnectionsCredentials(loaded_config.root,
                                            loaded_config.connections_credentials,
                                            Get(config, "connection", <<>>),
                                            hosts_and_ports, home_path,
                                            history_max_entries)
           layered == AcceptInvalidCertificate(
                          IF loaded_config.found THEN LayeredAdd(config, r.config)
                          ELSE config)
       IN  IF loaded_config.found /\ r.error # ""
           THEN /\ exception' = [code |-> r.error, host_index |-> 0, step |-> "initialize"]
                /\ loaded_config' = [loaded_config EXCEPT !.root = r.config]
                /\ pc' = "aborted"
                /\ UNCHANGED config
           ELSE IF ~loaded_config.found /\ Has(config, "connection")
           THEN /\ exception' = [code |-> "BAD_ARGUMENTS", host_index |-> 0,
                                 step |-> "initialize"]
                /\ pc' = "aborted"
                /\ UNCHANGED <<config, loaded_config>>
           ELSE /\ config' = EnvironmentDefault(
                                 EnvironmentDefault(layered, environment,
                                                    "user", "CLICKHOUSE_USER"),
                                 environment, "password", "CLICKHOUSE_PASSWORD")
                /\ loaded_config' = IF loaded_config.found
                                    THEN [loaded_config EXCEPT !.root = r.config]
                                    ELSE loaded_config
                /\ pc' = "call_connect"
                /\ UNCHANGED exception
    /\ UNCHANGED <<pass, is_interactive, build, use_client_time_zone, hosts_and_ports,
                   attempted_address_index, connection_parameters, connection,
                   server_display_name, time_zone_adopted, warnings, attempt_log, thrown>>
    /\ tok_idle
    /\ ses_idle
    /\ UNCHANGED <<options, environment, history_max_entries>>

\* from the parsed command line to the ConnectionParameters of the first host
NextResolve ==
    \/ ProcessOptionsConfig
    \/ Initialize
    \/ ConnectEnter
    \/ AttemptBuildParameters


\* ------------------------------------------------------------------ specification of the connection profiles

\* most profiles in connections_credentials
MaxProfiles == 2

EmptyProfile == [k \in ProfileKeys |-> {}]

\* profiles of a configuration file: one with every field, one with its name
\* only, one that shares its name with the first, one without a name
Profiles ==
    {[EmptyProfile EXCEPT !["name"] = {<<"a">>},
                          !["hostname"] = {<<"h">>},
                          !["port"] = {9440},
                          !["secure"] = {TRUE},
                          !["user"] = {<<"p", "u">>},
                          !["password"] = {<<"p", "p">>},
                          !["database"] = {<<"d">>},
                          !["history_file"] = {<<"~", "/", "x">>},
                          !["history_max_entries"] = {5},
                          !["accept-invalid-certificate"] = {TRUE},
                          !["prompt"] = {<<"p", "r">>}],
     [EmptyProfile EXCEPT !["name"] = {<<"b">>}],
     [EmptyProfile EXCEPT !["name"] = {<<"a">>},
                          !["secure"] = {FALSE},
                          !["user"] = {<<"q", "u">>},
                          !["history_file"] = {<<"y">>}],
     [EmptyProfile EXCEPT !["user"] = {<<"n", "u">>}]}

\* the bootstrap before the command line is copied to the configuration
BeforeOptions ==
    /\ pc = "process_options"
    /\ pass = 0
    /\ is_interactive = FALSE
    /\ use_client_time_zone = FALSE
    /\ config = EmptyConfig
    /\ attempted_address_index = 0
    /\ connection_parameters = NoParameters
    /\ connection = 0
    /\ exception = NoException
    /\ server_display_name = <<>>
    /\ time_zone_adopted = <<"l", "o", "c", "a", "l">>
    /\ warnings = <<>>
    /\ attempt_log = <<>>
    /\ thrown = <<>>

\* A command line with or without --connection and --host, with or without a
\* configuration file, whose profiles vary. The member history_max_entries
\* holds whatever it was constructed with.
InitProfiles ==
    /\ BeforeOptions
    /\ TokIdle
    /\ SesIdle
    /\ build = [use_jwt |-> TRUE, use_ssh |-> TRUE]
    /\ \E selector \in {{}, {<<>>}, {<<"a">>}, {<<"z">>}} :
         options = [NoOptions EXCEPT !["connection"] = selector]
    /\ \E home \in {{}, {<<"/", "r">>}} :
         environment = [NoEnvironment EXCEPT !["HOME"] = home]
    /\ \/ loaded_config = NoFile
       \/ \E host \in {{}, {<<"b">>}}, profiles \in SeqsUpTo(Profiles, MaxProfiles) :
            loaded_config = [found |-> TRUE,
                             root |-> [EmptyConfig EXCEPT !["host"] = host],
                             connections_credentials |-> profiles]
    /\ hosts_and_ports \in {<<>>, <<[host |-> <<"a">>, port |-> NoPort]>>}
    /\ history_max_entries \in {0, 1000000}

SpecProfiles == InitProfiles /\ [][NextResolve]_vars

\* ------------------------------------------------------------------ properties of the connection profiles

\* the selector given with --connection, empty if none
Selector == IF config["connection"] = {} THEN <<>> ELSE CHOOSE v \in config["connection"] : TRUE

\* the name parseConnectionsCredentials looks for when no selector is given
DefaultName ==
    IF hosts_and_ports # <<>> THEN hosts_and_ports[1].host
    ELSE IF loaded_config.root["host"] = {}
    THEN <<"l", "o", "c", "a", "l", "h", "o", "s", "t">>
    ELSE CHOOSE v \in loaded_config.root["host"] : TRUE

\* the profiles of the configuration file that carry the given name
ProfilesNamed(name) ==
    {i \in 1..Len(loaded_config.connections_credentials) :
        loaded_config.connections_credentials[i]["name"] =
           (IF name = <<>> THEN {} ELSE {name})}

\* C12: parseConnectionsCredentials fails with NO_ELEMENTS_IN_CONFIG exactly
\* when a non-empty selector was given and no profile has that name; without a
\* selector a missing profile is no error and the configuration stays as it
\* is; a selector without a configuration file fails with BAD_ARGUMENTS.
C12_SelectorMustMatch ==
    [][pc = "initialize" =>
         /\ loaded_config.found =>
              /\ (exception'.code = "NO_ELEMENTS_IN_CONFIG" /\ pc' = "aborted")
                    <=> (Selector # <<>> /\ ProfilesNamed(Selector) = {})
              /\ (Selector = <<>> /\ ProfilesNamed(DefaultName) = {})
                    => (loaded_config' = loaded_config /\ pc' = "call_connect"
                          /\ exception' = exception)
         /\ (~loaded_config.found /\ config["connection"] # {})
              => (exception'.code = "BAD_ARGUMENTS" /\ pc' = "aborted")
         /\ (~loaded_config.found /\ config["connection"] = {})
              => (pc' = "call_connect" /\ exception' = exception)]_vars

\* --connection z with a configuration file that has profiles, none named z
C12_Witness ==
    /\ pc = "aborted"
    /\ exception.code = "NO_ELEMENTS_IN_CONFIG"
    /\ exception.step = "initialize"
    /\ Selector = <<"z">>
    /\ Len(loaded_config.connections_credentials) = 2

\* the name the profiles were matched against
WantedName == IF Selector # <<>> THEN Selector ELSE DefaultName

\* what the profile says for history_file, the leading ~ expanded
ExpandedHistoryFile(profile) ==
    LET text == CHOOSE v \in profile["history_file"] : TRUE
        home == IF environment["HOME"] = {} THEN <<>>
                ELSE CHOOSE v \in environment["HOME"] : TRUE
    IN  IF text[1] = "~" /\ home # <<>>
        THEN (home \o <<"/">>) \o SubSeq(text, 2, Len(text))
        ELSE text

\* C13 as stated: after the substitution every one of port, user, password,
\* database, history_file, history_max_entries, accept-invalid-certificate,
\* prompt that the matched profile has reads, in the file configuration, as
\* the profile wrote it (history_file expanded, secure as secure / no-secure).
\* Of several profiles of the wanted name the last one is the matched one.
C13_ProfileOverlaid ==
    (pc \in {"call_connect", "attempt", "handshake", "catch"}
       /\ loaded_config.found /\ ProfilesNamed(WantedName) # {}) =>
      LET last == CHOOSE i \in ProfilesNamed(WantedName) :
                     \A j \in ProfilesNamed(WantedName) : j <= i
          profile == loaded_config.connections_credentials[last]
          file == loaded_config.root
      IN  /\ \A key \in {"port", "user", "password", "database", "history_max_entries",
                         "accept-invalid-certificate", "prompt"} :
                profile[key] # {} => file[key] = profile[key]
          /\ profile["history_file"] # {}
                => file["history_file"] = {ExpandedHistoryFile(profile)}
          /\ profile["secure"] = {TRUE} => file["secure"] = {TRUE}
          /\ profile["secure"] = {FALSE} => file["no-secure"] = {TRUE}


\* ------------------------------------------------------------------ specification of the security decision

\* hosts with and without a suffix of the managed cloud
SecureHosts ==
    {<<"a">>, LOCALHOST, <<"b">> \o CLOUD_SUFFIX, <<"c">> \o STAGING_SUFFIX}

\* connect() is entered with the keys secure and no-secure absent, true or
\* false, and with one host of the command line, with or without a port, or
\* with none.
InitSecure ==
    /\ pc = "call_connect"
    /\ pass = 0
    /\ is_interactive = FALSE
    /\ build = [use_jwt |-> TRUE, use_ssh |-> TRUE]
    /\ use_client_time_zone = TRUE
    /\ \E secure \in {{}, {TRUE}, {FALSE}}, no_secure \in {{}, {TRUE}, {FALSE}},
          port \in {{}, {DBMS_DEFAULT_SECURE_PORT}} :
         config = [EmptyConfig EXCEPT !["secure"] = secure,
                                      !["no-secure"] = no_secure,
                                      !["port"] = port]
    /\ \/ hosts_and_ports = <<>>
       \/ \E host \in SecureHosts,
             port \in {NoPort, DBMS_DEFAULT_PORT, DBMS_DEFAULT_SECURE_PORT} :
            hosts_and_ports = <<[host |-> host, port |-> port]>>
    /\ attempted_address_index = 0
    /\ connection_parameters = NoParameters
    /\ connection = 0
    /\ exception = NoException
    /\ server_display_name = <<>>
    /\ time_zone_adopted = <<"l", "o", "c", "a", "l">>
    /\ warnings = <<>>
    /\ attempt_log = <<>>
    /\ thrown = <<>>
    /\ TokIdle
    /\ SesIdle
    /\ ResIdle

SpecSecure == InitSecure /\ [][Next]_vars

\* ------------------------------------------------------------------ properties of the security decision

\* the constructor of ConnectionParameters has run for the current host
ParametersBuilt ==
    /\ connection_parameters # NoParameters
    /\ attempted_address_index \in 1..Len(hosts_and_ports)
    /\ connection_parameters.host = hosts_and_ports[attempted_address_index].host

\* the host of the parameters ends with a suffix of the managed cloud
CloudHost ==
    \/ EndsWith(connection_parameters.host,
                <<".", "c", "l", "i", "c", "k", "h", "o", "u", "s", "e", ".",
                  "c", "l", "o", "u", "d">>)
    \/ EndsWith(connection_parameters.host,
                <<".", "c", "l", "i", "c", "k", "h", "o", "u", "s", "e", "-",
                  "s", "t", "a", "g", "i", "n", "g", ".", "c", "o", "m">>)

\* the port the constructor was called with
RequestedPort == hosts_and_ports[attempted_address_index].port

\* C14: secure true -> Enabled, even with no-secure true; else no-secure true
\* -> Disabled, even for a host of the managed cloud; else such a host ->
\* Enabled; else Disabled, unless the port asked for is the secure port.
C14_SecurityOrder ==
    ParametersBuilt =>
      LET secure == config["secure"] = {TRUE}
          no_secure == config["no-secure"] = {TRUE}
      IN  /\ secure => connection_parameters.security
          /\ (~secure /\ no_secure) => ~connection_parameters.security
          /\ (~secure /\ ~no_secure /\ CloudHost) => connection_parameters.security
          /\ (~secure /\ ~no_secure /\ ~CloudHost /\ RequestedPort # 9440)
                => ~connection_parameters.security

\* no-secure switches security off for a host of the managed cloud
C14_Witness ==
    /\ ParametersBuilt
    /\ pc = "handshake"
    /\ config["secure"] # {TRUE}
    /\ config["no-secure"] = {TRUE}
    /\ CloudHost
    /\ ~connection_parameters.security

\* C15 as stated: with neither secure nor no-secure set and a host outside
\* the managed cloud, security is Enabled when the port asked for is the
\* secure port 9440 and Disabled for every other port.
C15_SecurePortEnables ==
    (ParametersBuilt /\ config["secure"] = {} /\ config["no-secure"] = {} /\ ~CloudHost)
       => (connection_parameters.security <=> RequestedPort = 9440)


\* ------------------------------------------------------------------ specification of the credential sources

\* profiles named after the host a, with and without a user and a password
CredentialProfiles ==
    {[EmptyProfile EXCEPT !["name"] = {<<"a">>},
                          !["user"] = {<<"p", "u">>},
                          !["password"] = {<<"p", "p">>}],
     [EmptyProfile EXCEPT !["name"] = {<<"a">>}]}

\* User, password and mechanism come from the command line, the environment,
\* the root of the configuration file and a profile, each present or not; the
\* profile is matched when the command line names the host a.
InitResolve ==
    /\ BeforeOptions
    /\ TokIdle
    /\ SesIdle
    /\ build = [use_jwt |-> TRUE, use_ssh |-> TRUE]
    /\ \E user \in {{}, {<<"c", "u">>}},
          password \in {{}, {<<"c", "p">>}, {ASK_PASSWORD}},
          ask \in {{}, {TRUE}},
          jwt \in {{}, {<<"j">>}},
          ssh \in {{}, {<<"k">>}} :
         options = [NoOptions EXCEPT !["user"] = user,
                                     !["password"] = password,
                                     !["ask-password"] = ask,
                                     !["jwt"] = jwt,
                                     !["ssh-key-file"] = ssh]
    /\ \E user \in {{}, {<<"e", "u">>}}, password \in {{}, {<<"e", "p">>}} :
         environment = [NoEnvironment EXCEPT !["CLICKHOUSE_USER"] = user,
                                             !["CLICKHOUSE_PASSWORD"] = password]
    /\ \/ loaded_config = NoFile
       \/ \E user \in {{}, {<<"f", "u">>}}, password \in {{}, {<<"f", "p">>}},
             profiles \in {<<>>} \cup {<<profile>> : profile \in CredentialProfiles} :
            loaded_config = [found |-> TRUE,
                             root |-> [EmptyConfig EXCEPT !["user"] = user,
                                                          !["password"] = password],
                             connections_credentials |-> profiles]
    /\ hosts_and_ports \in {<<>>, <<[host |-> <<"a">>, port |-> NoPort]>>}
    /\ history_max_entries = 0

SpecResolve == InitResolve /\ [][NextResolve]_vars

\* ------------------------------------------------------------------ properties of the credential sources

\* initialize has returned
Initialized == pc \in {"call_connect", "attempt", "handshake", "catch"}

\* the constructor of ConnectionParameters has returned for the first host
Resolved == pc = "handshake" /\ connection_parameters # NoParameters

\* the single value of a key that is set
ValueOf(setting) == CHOOSE v \in setting : TRUE

\* C16 as stated: with CLICKHOUSE_USER set and --user given the user of the
\* ConnectionParameters is the --user value, and with CLICKHOUSE_PASSWORD set
\* and --password given their password is the --password value.
C16_CommandLineBeatsEnvironment ==
    Resolved =>
      /\ (environment["CLICKHOUSE_USER"] # {} /\ options["user"] # {})
            => connection_parameters.user = ValueOf(options["user"])
      /\ (environment["CLICKHOUSE_PASSWORD"] # {} /\ options["password"] # {})
            => connection_parameters.password = ValueOf(options["password"])

\* C16, amended: the user is the --user value; the password is the --password
\* value when the password is the credential in use (neither jwt nor
\* ssh-key-file is configured) and --password came with a value; in every
\* case the configuration holds the values of the command line and not those
\* of the environment.
C16_CommandLineBeatsEnvironmentForPasswords ==
    /\ Resolved =>
         /\ (environment["CLICKHOUSE_USER"] # {} /\ options["user"] # {})
               => connection_parameters.user = ValueOf(options["user"])
         /\ (environment["CLICKHOUSE_PASSWORD"] # {} /\ options["password"] # {}
               /\ config["jwt"] = {} /\ config["ssh-key-file"] = {}
               /\ options["password"] # {<<"\n">>})
               => connection_parameters.password = ValueOf(options["password"])
    /\ Initialized =>
         /\ (options["user"] # {} /\ options["jwt"] = {}) => config["user"] = options["user"]
         /\ options["password"] # {} => config["password"] = options["password"]

\* --user cu --password cp with both variables of the environment set
C16_Witness ==
    /\ Resolved
    /\ environment["CLICKHOUSE_USER"] = {<<"e", "u">>}
    /\ environment["CLICKHOUSE_PASSWORD"] = {<<"e", "p">>}
    /\ connection_parameters.user = <<"c", "u">>
    /\ connection_parameters.password = <<"c", "p">>

\* a profile was matched and it has a user
MatchedProfileUser ==
    IF /\ loaded_config.found
       /\ hosts_and_ports # <<>>
       /\ loaded_config.connections_credentials # <<>>
       /\ loaded_config.connections_credentials[1]["name"] = {hosts_and_ports[1].host}
    THEN loaded_config.connections_credentials[1]["user"]
    ELSE {}

\* C17 as stated: a matched profile with a user gives the user of the
\* ConnectionParameters, with an explicit --user and with CLICKHOUSE_USER set.
C17_ProfileUserBeatsAll ==
    (Resolved /\ MatchedProfileUser # {})
       => connection_parameters.user = ValueOf(MatchedProfileUser)

\* C17, amended: a matched profile with a user gives the user of the
\* ConnectionParameters when neither --user nor --jwt is on the command line,
\* whether CLICKHOUSE_USER is set or not; an explicit --user wins over the
\* profile.
C17_ProfileUserBeatsEnvironment ==
    (Resolved /\ MatchedProfileUser # {}) =>
       /\ (options["user"] = {} /\ options["jwt"] = {})
             => connection_parameters.user = ValueOf(MatchedProfileUser)
       /\ options["user"] # {}
             => connection_parameters.user = ValueOf(options["user"])

\* the profile's user is taken although CLICKHOUSE_USER is set
C17_Witness ==
    /\ Resolved
    /\ MatchedProfileUser = {<<"p", "u">>}
    /\ environment["CLICKHOUSE_USER"] # {}
    /\ options["user"] = {}
    /\ connection_parameters.user = <<"p", "u">>

C20_JwtExcludesUser ==
    /\ [][pc = "process_options" =>
            /\ (options["jwt"] # {} /\ options["user"] # {})
                  => /\ pc' = "aborted"
                     /\ exception' = [code |-> "BAD_ARGUMENTS", host_index |-> 0,
                                      step |-> "options"]
            /\ (options["jwt"] # {} /\ options["user"] = {})
                  => /\ pc' = "initialize"
                     /\ exception' = exception
                     /\ config'["jwt"] = options["jwt"]
                     /\ config'["user"] = {<<>>}]_vars
    /\ [](exception.step = "options" =>
            /\ pc = "aborted"
            /\ attempt_log = <<>>
            /\ connection = 0
            /\ connection_parameters = NoParameters)

\* --jwt j --user cu was refused
C20_Witness ==
    /\ pc = "aborted"
    /\ exception.code = "BAD_ARGUMENTS"
    /\ exception.step = "options"
    /\ options["jwt"] = {<<"j">>}
    /\ options["user"] = {<<"c", "u">>}


\* ------------------------------------------------------------------ properties of the credential mechanism

\* C19: whenever the constructor of ConnectionParameters succeeded, one
\* credential mechanism is filled in, the first of JWT (key jwt), SSH key (key
\* ssh-key-file) and password whose key is there, the password being the
\* mechanism when neither key is; the other two are left unset whatever the
\* configuration holds for them.
C19_OneMechanism ==
    connection_parameters # NoParameters =>
      LET cp == connection_parameters
      IN  /\ IF config["jwt"] # {}
             THEN /\ {cp.jwt} = config["jwt"]
                  /\ cp.ssh_private_key = <<>>
                  /\ cp.password = <<>>
                  /\ ~cp.prompted
             ELSE IF config["ssh-key-file"] # {}
             THEN /\ {cp.ssh_private_key} = config["ssh-key-file"]
                  /\ cp.jwt = <<>>
                  /\ cp.password = <<>>
                  /\ ~cp.prompted
             ELSE /\ cp.jwt = <<>>
                  /\ cp.ssh_private_key = <<>>
                  /\ pc = "handshake" =>
                       cp.password =
                          (IF config["ask-password"] = {TRUE} \/ config["password"] = {<<"\n">>}
                           THEN <<"t">>
                           ELSE IF config["password"] = {} THEN <<>>
                           ELSE CHOOSE v \in config["password"] : TRUE)
          /\ Cardinality({m \in {"jwt", "ssh_private_key", "password"} : cp[m] # <<>>}) <= 1

\* jwt, ssh-key-file and password are all configured: JWT is taken
C19_Witness ==
    /\ pc = "handshake"
    /\ config["jwt"] = {<<"j">>}
    /\ config["ssh-key-file"] = {<<"k">>}
    /\ config["password"] = {<<"p">>}
    /\ connection_parameters.jwt = <<"j">>
    /\ connection_parameters.ssh_private_key = <<>>
    /\ connection_parameters.password = <<>>

\* ------------------------------------------------------------------ password together with ask-password

PasswordAndAskPassword == Has(config, "password") /\ Get(config, "ask-password", FALSE)

\* the constructor reaches its password branch
PasswordMechanism == ~Has(config, "jwt") /\ ~Has(config, "ssh-key-file")

NoConnectionOpened ==
    /\ connection = 0
    /\ pc \in {"call_connect", "attempt", "catch", "connect_threw", "aborted"}

\* C21 (as stated): with both password and ask-password configured, the
\* bootstrap ends in a fatal error and no Connection is opened to any host,
\* whatever other keys (jwt, ssh-key-file) are configured.
C21_ConflictAlwaysFatal ==
    PasswordAndAskPassword => NoConnectionOpened

\* C21 (amended): with both password and ask-password configured and neither
\* jwt nor ssh-key-file, the constructor throws BAD_ARGUMENTS for every host of
\* the list in turn, no Connection is opened, connect() leaves with the
\* BAD_ARGUMENTS of the last host, and main() ends with it without a retry.
C21_ConflictFatalInPasswordBranch ==
    (PasswordAndAskPassword /\ PasswordMechanism) =>
        /\ NoConnectionOpened
        /\ pass <= 1
        /\ \A i \in 1..Len(attempt_log) : attempt_log[i].result = "BAD_ARGUMENTS"
        /\ pc \in {"connect_threw", "aborted"} =>
              /\ exception.code = "BAD_ARGUMENTS"
              /\ exception.step = "parameters"
              /\ exception.host_index = Len(hosts_and_ports)
              /\ Len(attempt_log) = Len(hosts_and_ports)
        /\ pc # "aborted" => ENABLED Next

\* three hosts, each refused by the constructor, main() ended with the error
C21_Witness ==
    /\ PasswordAndAskPassword
    /\ PasswordMechanism
    /\ pc = "aborted"
    /\ Len(hosts_and_ports) = 3
    /\ Len(attempt_log) = 3
    /\ exception.code = "BAD_ARGUMENTS"
    /\ connection = 0

\* ------------------------------------------------------------------ specification of the session facts

\* longest prompt_by_server_display_name table
MaxPromptKeys == 3

\* largest component of a server version; the client is VERSION
MaxVersionPart == 3

\* the tables: up to MaxPromptKeys entries with distinct keys, in any order,
\* each entry holding a template of its own
PromptTables ==
    LET keys == {<<"d", "e", "f", "a", "u", "l", "t">>, <<"c", "l", "o", "u", "d">>,
                 <<"c", "l", "i", "c", "k">>, <<"a">>}
        entry(key) == [key |-> key,
                       value |-> <<"<">> \o key \o <<">", "{", "h", "o", "s", "t", "}">>]
    IN  {[i \in 1..Len(ks) |-> entry(ks[i])] :
            ks \in {k \in SeqsUpTo(keys, MaxPromptKeys) :
                      \A i, j \in 1..Len(k) : i # j => k[i] # k[j]}}

\* values of the key prompt
PromptTemplates ==
    {<<"{", "u", "s", "e", "r", "}", "@", "{", "h", "o", "s", "t", "}">>,
     <<"{", "h", "o", "s", "t", "}", "{", "h", "o", "s", "t", "}">>,
     <<"{", "d", "i", "s", "p", "l", "a", "y", "_", "n", "a", "m", "e", "}", ":",
       "{", "p", "o", "r", "t", "}">>,
     <<"{", "u", "s", "{", "h", "o", "s", "t", "}", "r", "}">>,
     <<"{", "d", "i", "s", "p", "l", "{", "h", "o", "s", "t", "}", "y", "_", "n", "a", "m", "e", "}">>,
     <<"\\", "e", "{", "h", "o", "s", "t", "}", "\\", "z", "}", "{">>,
     <<"{", "u", "s", "e", "r", "}">>,
     <<"x">>}

\* connect() is entered with a list of at most two hosts and with one of:
\* a prompt table; a value of the key prompt and a user; a server version.
InitSession ==
    /\ pc = "call_connect"
    /\ pass = 0
    /\ build = [use_jwt |-> TRUE, use_ssh |-> TRUE]
    /\ hosts_and_ports \in {<<>>,
                            <<[host |-> HostAt(1), port |-> NoPort]>>,
                            <<[host |-> HostAt(5), port |-> NoPort]>>,
                            <<[host |-> HostAt(1), port |-> NoPort],
                              [host |-> HostAt(5), port |-> NoPort]>>}
    /\ \/ /\ prompt_by_server_display_name \in {{}} \cup {{t} : t \in PromptTables}
          /\ \E explicit \in {{}, {<<"{", "u", "s", "e", "r", "}", ">">>}} :
               config = [EmptyConfig EXCEPT !["prompt"] = explicit]
          /\ is_interactive = FALSE
          /\ use_client_time_zone = TRUE
          /\ server_version = VERSION
       \/ /\ prompt_by_server_display_name = {}
          /\ \E template \in PromptTemplates,
                user \in {{}, {<<"{", "h", "o", "s", "t", "}">>}} :
               config = [EmptyConfig EXCEPT !["prompt"] = {template}, !["user"] = user]
          /\ is_interactive = FALSE
          /\ use_client_time_zone = TRUE
          /\ server_version = VERSION
       \/ /\ prompt_by_server_display_name = {}
          /\ config = EmptyConfig
          /\ is_interactive \in BOOLEAN
          /\ use_client_time_zone \in BOOLEAN
          /\ server_version \in (1..MaxVersionPart) \X (1..MaxVersionPart) \X (1..MaxVersionPart)
    /\ attempted_address_index = 0
    /\ connection_parameters = NoParameters
    /\ connection = 0
    /\ exception = NoException
    /\ server_display_name = <<>>
    /\ time_zone_adopted = <<"l", "o", "c", "a", "l">>
    /\ warnings = <<>>
    /\ attempt_log = <<>>
    /\ thrown = <<>>
    /\ advisory = ""
    /\ prompt = <<>>
    /\ error_code = 0
    /\ error_site = ""
    /\ exit_code = {}
    /\ timeouts = NoTimeouts
    /\ TokIdle
    /\ ResIdle

SpecSession == InitSession /\ [][Next]_vars

\* ------------------------------------------------------------------ properties of the prompt

\* the entries of the table, <<>> when there is none
TableEntries ==
    IF prompt_by_server_display_name = {} THEN <<>>
    ELSE CHOOSE t \in prompt_by_server_display_name : TRUE

\* the non-default keys of the table that are substrings of the display name
MatchingKeys ==
    {i \in 1..Len(TableEntries) :
        /\ TableEntries[i].key # <<"d", "e", "f", "a", "u", "l", "t">>
        /\ \E k \in 0..(Len(server_display_name) - Len(TableEntries[i].key)) :
              SubSeq(server_display_name, k + 1, k + Len(TableEntries[i].key))
                 = TableEntries[i].key}

DefaultEntries ==
    {i \in 1..Len(TableEntries) : TableEntries[i].key = <<"d", "e", "f", "a", "u", "l", "t">>}

\* the template the selection order of the claim gives
ClaimedTemplate ==
    IF config["prompt"] # {} THEN CHOOSE v \in config["prompt"] : TRUE
    ELSE IF prompt_by_server_display_name # {} /\ MatchingKeys # {}
    THEN TableEntries[CHOOSE i \in MatchingKeys : \A j \in MatchingKeys : i <= j].value
    ELSE IF prompt_by_server_display_name # {} /\ DefaultEntries # {}
    THEN TableEntries[CHOOSE i \in DefaultEntries : TRUE].value
    ELSE <<"{", "d", "i", "s", "p", "l", "a", "y", "_", "n", "a", "m", "e", "}">>

\* the prompt made of a template
PromptOf(template) ==
    Substitute(readEscapedString(template),
               prompt_substitutions(connection_parameters, server_display_name))

\* C22: the template of the prompt is the key prompt of the configuration when
\* it is there; else, with a prompt_by_server_display_name table, the entry of
\* the first non-default key that is a substring of the server display name,
\* the default entry when no key matches, and {display_name} when no key matches
\* and the table has no default entry; else {display_name}.
C22_PromptSelection ==
    pc = "connected" => prompt = PromptOf(ClaimedTemplate)

\* The same order but for a table in which no key matches and that has no
\* default entry: there the prompt is what it was before, the empty string.
SelectionAsCoded ==
    pc = "connected" =>
        IF /\ config["prompt"] = {}
           /\ prompt_by_server_display_name # {}
           /\ MatchingKeys = {}
           /\ DefaultEntries = {}
        THEN prompt = <<>>
        ELSE prompt = PromptOf(ClaimedTemplate)

\* the template connect() has filled in: chosen, escape sequences read
UsedTemplate ==
    readEscapedString(SelectPrompt(config, prompt_by_server_display_name,
                                   server_display_name, <<>>))

\* the placeholders and their values
Placeholders == prompt_substitutions(connection_parameters, server_display_name)

RECURSIVE SubstituteAtOnce(_, _)
\* one pass over the text from left to right: a placeholder of the text gives
\* its value, which is not looked at again, and any other character itself
SubstituteAtOnce(text, substitutions) ==
    IF text = <<>> THEN <<>>
    ELSE LET here == {i \in 1..Len(substitutions) :
                        LET name == <<"{">> \o substitutions[i].key \o <<"}">>
                        IN  /\ Len(text) >= Len(name)
                            /\ SubSeq(text, 1, Len(name)) = name}
         IN  IF here = {}
             THEN <<Head(text)>> \o SubstituteAtOnce(Tail(text), substitutions)
             ELSE LET i == CHOOSE i \in here : TRUE
                  IN  substitutions[i].value
                         \o SubstituteAtOnce(SubSeq(text, Len(substitutions[i].key) + 3,
                                                    Len(text)),
                                             substitutions)

\* the orders in which the four placeholders can be processed
ProcessingOrders == {p \in [1..4 -> 1..4] : \A i, j \in 1..4 : i # j => p[i] # p[j]}

SubstituteInOrder(text, p) == Substitute(text, [i \in 1..4 |-> Placeholders[p[i]]])

IsBrace(c) == c = "{" \/ c = "}"

BraceFree(s) == \A i \in 1..Len(s) : ~IsBrace(s[i])

\* after an opening brace the next brace, if any, is a closing one
FlatTemplate(t) ==
    \A i \in 1..Len(t) :
        t[i] = "{" =>
            \A j \in (i + 1)..Len(t) :
                (IsBrace(t[j]) /\ \A k \in (i + 1)..(j - 1) : ~IsBrace(t[k])) => t[j] = "}"

\* C23 (as stated): for every template and all values, the prompt is the
\* template with each placeholder replaced by its value, no text of a value
\* being replaced again, and every processing order of the four placeholders
\* gives this same prompt.
C23_LiteralAndOrderIndependent ==
    pc = "connected" =>
        /\ prompt = SubstituteAtOnce(UsedTemplate, Placeholders)
        /\ \A p \in ProcessingOrders : SubstituteInOrder(UsedTemplate, p) = prompt

\* C23 (amended): when no value holds a brace and the template nests no
\* braces, the prompt is the template with each placeholder replaced by its
\* value, no text of a value being replaced again, and every processing order
\* gives this same prompt; {user}@{host} with user default and host localhost
\* gives default@localhost.
C23_FlatTemplatesSubstituteLiterally ==
    pc = "connected" =>
        /\ (/\ FlatTemplate(UsedTemplate)
            /\ \A i \in 1..4 : BraceFree(Placeholders[i].value))
           => /\ prompt = SubstituteAtOnce(UsedTemplate, Placeholders)
              /\ \A p \in ProcessingOrders : SubstituteInOrder(UsedTemplate, p) = prompt
        /\ (/\ UsedTemplate = <<"{", "u", "s", "e", "r", "}", "@", "{", "h", "o", "s", "t", "}">>
            /\ connection_parameters.user = <<"d", "e", "f", "a", "u", "l", "t">>
            /\ connection_parameters.host = <<"l", "o", "c", "a", "l", "h", "o", "s", "t">>)
           => prompt = <<"d", "e", "f", "a", "u", "l", "t", "@",
                         "l", "o", "c", "a", "l", "h", "o", "s", "t">>

\* the template {host}{host} filled in for host a
C23_Witness ==
    /\ pc = "connected"
    /\ UsedTemplate = <<"{", "h", "o", "s", "t", "}", "{", "h", "o", "s", "t", "}">>
    /\ connection_parameters.host = <<"a">>
    /\ BraceFree(connection_parameters.user)
    /\ prompt = <<"a", "a">>

\* ------------------------------------------------------------------ properties of the version comparison

\* a is before b in the lexicographic order of (major, minor, patch)
Earlier(a, b) == \E i \in 1..3 : a[i] < b[i] /\ \A j \in 1..(i - 1) : a[j] = b[j]

\* C24: the comparison of the client and server versions is advisory only.
\* Whatever triple the server reported, the step that compares the versions
\* goes on to the time zone and changes nothing but the message: the hosts, the
\* configuration, the committed connection and the error in flight are as they
\* were, and no other step reads or writes the triple or the message. The
\* message is chosen in the lexicographic order of (major, minor, patch): the
\* client is older, the server is older, none when the triples are equal (and
\* none at all when the client is not interactive, nor for an older server whose
\* display name is clickhouse-cloud).
C24_VersionIsAdvisory ==
    [][ /\ pc = "version" =>
            /\ pc' = "time_zone"
            /\ UNCHANGED <<pass, is_interactive, build, use_client_time_zone, config,
                           hosts_and_ports, attempted_address_index,
                           connection_parameters, connection, exception,
                           server_display_name, time_zone_adopted, warnings,
                           attempt_log, thrown, prompt>>
            /\ advisory' =
                  IF ~is_interactive THEN ""
                  ELSE IF Earlier(<<2, 2, 2>>, server_version) THEN "client older"
                  ELSE IF /\ Earlier(server_version, <<2, 2, 2>>)
                          /\ server_display_name # <<"c", "l", "i", "c", "k", "h", "o", "u",
                                                     "s", "e", "-", "c", "l", "o", "u", "d">>
                       THEN "server older"
                  ELSE ""
            /\ (server_version = <<2, 2, 2>> => advisory' = "")
        /\ pc # "version" => advisory' = advisory
        /\ server_version' = server_version
      ]_vars

\* a server with a smaller major version and larger minor and patch versions
\* was found older, and connect() returned
C24_Witness ==
    /\ pc = "connected"
    /\ server_version = <<1, 3, 3>>
    /\ advisory = "server older"
    /\ connection > 0

\* ------------------------------------------------------------------ properties of the time zone and of the commit

\* C25: with use_client_time_zone false the time zone of the server is asked
\* for: a zone DateLUT accepts is adopted; an empty zone, or a zone DateLUT
\* refuses, leaves the local zone, adds one warning, and connect() goes on to
\* its end; only the request itself can make connect() fail. With
\* use_client_time_zone true nothing is asked for: the zone and the warnings
\* stay as they are and no error can arise.
C25_TimeZoneNegotiation ==
    [][pc = "time_zone" =>
         IF use_client_time_zone
         THEN /\ pc' = "prompt"
              /\ UNCHANGED <<time_zone_adopted, warnings, exception, thrown>>
         ELSE \/ /\ pc' = "prompt"
                 /\ time_zone_adopted' = <<"U", "T", "C">>
                 /\ UNCHANGED <<warnings, exception, thrown>>
              \/ /\ pc' = "prompt"
                 /\ warnings' \in
                       {Append(warnings, "could not determine server time zone"),
                        Append(warnings, "could not switch to server time zone")}
                 /\ UNCHANGED <<time_zone_adopted, exception, thrown>>
              \/ /\ pc' = "connect_threw"
                 /\ exception'.step = "time_zone"
                 /\ UNCHANGED <<time_zone_adopted, warnings>>
      ]_vars

\* the zone of the server could not be adopted: connect() returned with the
\* warning and the local zone
C25_Witness ==
    /\ pc = "connected"
    /\ ~use_client_time_zone
    /\ warnings = <<"could not switch to server time zone">>
    /\ time_zone_adopted = <<"l", "o", "c", "a", "l">>
    /\ connection > 0
    /\ thrown = <<>>

\* C26: once the loop of connect() is left with a connection, and so when
\* connect() has returned, the keys host and port of the configuration hold the
\* host and the port of the committed connection, which is the attempted host
\* of the list with its own port or, when it has none, the resolved one; the
\* server display name, once fetched, is the name the server reported or, when
\* that is empty, the host of the committed connection.
C26_CommitWritesBack ==
    Committed =>
        LET winner == hosts_and_ports[connection]
        IN  /\ connection = attempted_address_index
            /\ connection_parameters.host = winner.host
            /\ config["host"] = {winner.host}
            /\ config["port"] = {connection_parameters.port}
            /\ IF winner.port # 0
               THEN connection_parameters.port = winner.port
               ELSE connection_parameters.port \in {9000, 9440}
            /\ pc # "display_name" =>
                  server_display_name \in
                      {<<"c", "l", "i", "c", "k", "h", "o", "u", "s", "e", "-",
                         "c", "l", "o", "u", "d">>,
                       winner.host}

\* the third host of three won, the server reported no display name, and
\* connect() returned
C26_Witness ==
    /\ pc = "connected"
    /\ Len(hosts_and_ports) = 3
    /\ connection = 3
    /\ config["host"] = {<<"c">>}
    /\ config["port"] = {9000}
    /\ server_display_name = <<"c">>

\* ------------------------------------------------------------------ exit status

\* largest absolute value of an error code
MaxErrorCode == 600

\* a test of the whole code in place of its low 8 bits
ExitCode_WholeCodeTested(site, code) ==
    IF code # 0 THEN code ELSE IF site = "main" THEN -1 ELSE 1

\* Client.cpp:432 and Client.cpp:1144-1145: static_cast<UInt8>(code) ? code : generic,
\* the generic code being -1 in Client::main and 1 in mainEntryClickHouseClient
ExitCode(site, code) ==
    IF code % 256 # 0 THEN code ELSE IF site = "main" THEN -1 ELSE 1

\* catch (Exception & e) of Client::main: its return value goes through
\* Application::run and mainEntryClickHouseClient to the operating system
MainCatchException ==
    /\ error_site = "main"
    /\ exit_code = {}
    /\ exit_code' = {ExitCode("main", error_code)}
    /\ UNCHANGED <<server_version, advisory, prompt_by_server_display_name, prompt,
                   error_code, error_site, timeouts>>
    /\ conn_idle
    /\ tok_idle
    /\ res_idle

\* catch (DB::Exception & e) of mainEntryClickHouseClient, for an exception
\* that left client.init or client.run
EntryCatchException ==
    /\ error_site = "entry"
    /\ exit_code = {}
    /\ exit_code' = {ExitCode("entry", error_code)}
    /\ UNCHANGED <<server_version, advisory, prompt_by_server_display_name, prompt,
                   error_code, error_site, timeouts>>
    /\ conn_idle
    /\ tok_idle
    /\ res_idle

NextExit == MainCatchException \/ EntryCatchException

\* an exception with any code of the range is in flight, in Client::main or
\* in mainEntryClickHouseClient
InitExit ==
    /\ error_code \in (-MaxErrorCode)..MaxErrorCode
    /\ error_site \in {"main", "entry"}
    /\ exit_code = {}
    /\ timeouts = NoTimeouts
    /\ server_version = VERSION
    /\ advisory = ""
    /\ prompt_by_server_display_name = {}
    /\ prompt = <<>>
    /\ ConnIdle
    /\ TokIdle
    /\ ResIdle

SpecExit == InitExit /\ [][NextExit]_vars

\* the status the operating system keeps of a returned value: its low 8 bits
ExitStatus(v) == v % 256

\* C27: the value returned for an exception with code c is c when the low 8
\* bits of c are not all zero, and otherwise -1 in Client::main and 1 in
\* mainEntryClickHouseClient; in each case its low 8 bits, the exit status of
\* the process, are not zero.
C27_ExitStatusNonZero ==
    \A v \in exit_code :
        /\ ExitStatus(v) # 0
        /\ ExitStatus(v) \in 1..255
        /\ v = IF \E k \in (-MaxErrorCode)..MaxErrorCode : error_code = 256 * k
               THEN (IF error_site = "main" THEN -1 ELSE 1)
               ELSE error_code

\* the code 512 caught in Client::main: -1 is returned, status 255
C27_Witness ==
    /\ error_code = 512
    /\ error_site = "main"
    /\ exit_code = {-1}
    /\ ExitStatus(-1) = 255


\* ------------------------------------------------------------------ specification of the timeouts

\* connect() is entered with each of the six timeout keys absent or holding an
\* int: the keys in seconds absent, positive or negative, and
\* handshake_timeout_ms over the values around the largest product an int
\* holds and the ends of int.
InitTimeouts ==
    /\ pc = "call_connect"
    /\ pass = 0
    /\ is_interactive = FALSE
    /\ build = [use_jwt |-> TRUE, use_ssh |-> TRUE]
    /\ use_client_time_zone = TRUE
    /\ \E connect \in {{}, {7}, {-1}}, send \in {{}, {7}, {-1}},
          receive \in {{}, {0}, {-1}}, keep_alive \in {{}, {7}, {-1}},
          sync_request \in {{}, {7}, {-2147483647 - 1}},
          handshake \in {{}, {0}, {1}, {10000}, {2147483}, {2147484}, {3000000},
                         {2147483647}, {-1}, {-2147484}, {-2147483647 - 1}} :
         config = [EmptyConfig EXCEPT !["connect_timeout"] = connect,
                                      !["send_timeout"] = send,
                                      !["receive_timeout"] = receive,
                                      !["tcp_keep_alive_timeout"] = keep_alive,
                                      !["sync_request_timeout"] = sync_request,
                                      !["handshake_timeout_ms"] = handshake]
    /\ hosts_and_ports = <<[host |-> HostAt(1), port |-> NoPort]>>
    /\ attempted_address_index = 0
    /\ connection_parameters = NoParameters
    /\ connection = 0
    /\ exception = NoException
    /\ server_display_name = <<>>
    /\ time_zone_adopted = <<"l", "o", "c", "a", "l">>
    /\ warnings = <<>>
    /\ attempt_log = <<>>
    /\ thrown = <<>>
    /\ TokIdle
    /\ SesIdle
    /\ ResIdle

SpecTimeouts == InitTimeouts /\ [][Next]_vars

\* ------------------------------------------------------------------ properties of the timeouts

\* the value of a timeout key of the configuration, or else its default
ExplicitOrDefault(key, default) ==
    IF config[key] = {} THEN default ELSE CHOOSE v \in config[key] : TRUE

\* C28: once the parameters of an attempt are built, each of the six timeouts
\* is its explicit configuration value when the key is present and its default
\* otherwise, the handshake timeout is exactly handshake_timeout_ms
\* milliseconds, and no timeout is negative.
C28_TimeoutsResolved ==
    connection_parameters # NoParameters =>
        LET ms == ExplicitOrDefault("handshake_timeout_ms", 300000)
        IN  /\ timeouts.connection = <<ExplicitOrDefault("connect_timeout", 10), 0>>
            /\ timeouts.send = <<ExplicitOrDefault("send_timeout", 300), 0>>
            /\ timeouts.receive = <<ExplicitOrDefault("receive_timeout", 300), 0>>
            /\ timeouts.tcp_keep_alive
                 = <<ExplicitOrDefault("tcp_keep_alive_timeout", 290), 0>>
            /\ timeouts.handshake = <<ms \div 1000, (ms % 1000) * 1000>>
            /\ timeouts.sync_request = <<ExplicitOrDefault("sync_request_timeout", 5), 0>>
            /\ \A name \in DOMAIN timeouts : timeouts[name][1] >= 0

\* What the code gives: a timeout in seconds is the value of its key, negative
\* when the value is; the handshake timeout of a non-negative value whose
\* product fits an int is exact, and that of 3000000 ms is 3000 s or the cut
\* product -1294967296 us.
TimeoutsAsCoded ==
    connection_parameters # NoParameters =>
        LET ms == ExplicitOrDefault("handshake_timeout_ms", 300000)
        IN  /\ timeouts.connection = <<ExplicitOrDefault("connect_timeout", 10), 0>>
            /\ timeouts.sync_request = <<ExplicitOrDefault("sync_request_timeout", 5), 0>>
            /\ (ms \in 0..2147483 => timeouts.handshake = <<ms \div 1000, (ms % 1000) * 1000>>)
            /\ (ms = 2147484 => timeouts.handshake \in {<<2147, 484000>>, <<-2148, 516704>>})
            /\ (ms = 3000000 => timeouts.handshake \in {<<3000, 0>>, <<-1295, 32704>>})
            /\ (ms = -1 => timeouts.handshake = <<-1, 999000>>)

\* a handshake timeout that is the cut product is reached
CutHandshakeReached ==
    connection_parameters # NoParameters /\ timeouts.handshake = <<-1295, 32704>>


\* ------------------------------------------------------------------ specification of the host/port groups

\* most host, port and other arguments of SpecPairing
MaxItems == 3

\* The groups tryParseConnectionString leaves in hosts_and_ports_arguments:
\* one group per host of the connection string, the host and its port if it
\* has one.
ConnectionStringGroups ==
    {<<>>,
     << <<S_host_eq \o <<"c">> >> >>,
     << <<S_host_eq \o <<"c">>, S_port_eq \o <<"3">> >>, <<S_host_eq \o <<"d">> >> >>}

\* The command line is a sequence of host arguments and port arguments in
\* every form readArguments takes (value detached or attached, long or short)
\* and common arguments, after a connection string or without one.
InitPairing ==
    /\ ConnIdle
    /\ SesIdle
    /\ ResIdle
    /\ \E items \in SeqsUpTo({<<S_host, <<"a">> >>, <<S_h, <<"b">> >>,
                              <<S_host_eq \o <<"a">> >>, <<S_h \o <<"b">> >>,
                              <<S_port, <<"1">> >>, <<S_port_eq \o <<"2">> >>,
                              << <<"-", "q">> >>}, MaxItems) :
         \/ TokStart(Flatten(items))
         \/ /\ tpc = "scan"
            /\ argv = << <<"c", "l", "i", "c", "k", "h", "o", "u", "s", "e", ":">> >>
                         \o Flatten(items)
            /\ arg_num = 2
            /\ in_external_group = FALSE
            /\ prev_host_arg = <<>>
            /\ prev_port_arg = <<>>
            /\ common_arguments = <<>>
            /\ external_tables_arguments = <<>>
            /\ hosts_and_ports_arguments \in ConnectionStringGroups
            /\ query_parameters = {}
            /\ allow_settings = {}
            /\ parsed_hosts_and_ports = <<>>
            /\ targ_error = ""

SpecPairing == InitPairing /\ [][NextArgs]_vars

\* ------------------------------------------------------------------ properties of the host/port groups

\* The host tokens and port tokens of an argument vector, in order, a detached
\* value joined to its flag.
RECURSIVE HostPortTokens(_)
HostPortTokens(args) ==
    IF args = <<>> THEN <<>>
    ELSE IF Head(args) \in {S_host, S_h, S_port}
    THEN IF Len(args) < 2 THEN <<>>
         ELSE <<(IF Head(args) = S_port THEN S_port_eq ELSE S_host_eq) \o args[2]>>
                 \o HostPortTokens(SubSeq(args, 3, Len(args)))
    ELSE IF IsHostArg(Head(args)) \/ IsPortArg(Head(args))
    THEN <<Head(args)>> \o HostPortTokens(Tail(args))
    ELSE HostPortTokens(Tail(args))

\* how often x is in the sequence s
Count(x, s) == Cardinality({i \in 1..Len(s) : s[i] = x})

\* C29: when readArguments has returned, the groups are those of the
\* connection string followed by groups that hold every host token and every
\* port token of the rest of the input exactly once, the hosts in the order
\* of the input; every group holds at most one host and at most one port, and
\* a token pending at the end of input is the last group, alone.
C29_TokensGrouped ==
    tpc \in {"options", "done"} =>
      LET groups == hosts_and_ports_arguments
      IN  /\ \E leading \in ConnectionStringGroups :
               /\ ~has_connection_string => leading = <<>>
               /\ Len(leading) <= Len(groups)
               /\ SubSeq(groups, 1, Len(leading)) = leading
               /\ LET emitted == Flatten(SubSeq(groups, Len(leading) + 1, Len(groups)))
                      input == HostPortTokens(IF has_connection_string THEN Tail(argv)
                                              ELSE argv)
                  IN  /\ SelectSeq(emitted, IsHostArg) = SelectSeq(input, IsHostArg)
                      /\ \A i \in 1..Len(input) :
                           Count(input[i], emitted) = Count(input[i], input)
                      /\ Len(emitted) = Len(input)
          /\ \A g \in 1..Len(groups) :
               /\ groups[g] # <<>>
               /\ Len(SelectSeq(groups[g], IsHostArg)) <= 1
               /\ Len(SelectSeq(groups[g], IsPortArg)) <= 1
          /\ prev_host_arg # <<>> => groups[Len(groups)] = <<prev_host_arg>>
          /\ prev_port_arg # <<>> => groups[Len(groups)] = <<prev_port_arg>>

\* after a connection string with two hosts, --port 2 -hb --host a: the groups
\* of the connection string, the port with the host after it, and the last
\* host alone
C29_Witness ==
    /\ tpc = "options"
    /\ has_connection_string
    /\ Len(hosts_and_ports_arguments) = 4
    /\ hosts_and_ports_arguments[3] = <<S_h \o <<"b">>, S_port_eq \o <<"2">> >>
    /\ hosts_and_ports_arguments[4] = <<S_host_eq \o <<"a">> >>
    /\ prev_host_arg = S_host_eq \o <<"a">>

\* C30: the pending host and the pending port are never both set, and the end
\* of readArguments emits at most one group, of one token.
C30_OnePending ==
    /\ [](prev_host_arg = <<>> \/ prev_port_arg = <<>>)
    /\ [][tpc = "flush" =>
            \/ hosts_and_ports_arguments' = hosts_and_ports_arguments
            \/ \E token \in {prev_host_arg, prev_port_arg} :
                 /\ token # <<>>
                 /\ hosts_and_ports_arguments'
                      = Append(hosts_and_ports_arguments, <<token>>)]_vars

\* --host=a --port=1 --port 2: the port met the pending host, the next port is
\* pending and is emitted alone at the end
C30_Witness ==
    /\ tpc = "options"
    /\ prev_host_arg = <<>>
    /\ prev_port_arg # <<>>
    /\ Len(hosts_and_ports_arguments) = 2
    /\ Len(hosts_and_ports_arguments[1]) = 2
    /\ hosts_and_ports_arguments[2] = <<prev_port_arg>>

\* ------------------------------------------------------------------ termination of the bootstrap

\* Every call the bootstrap makes returns or throws, and main() runs alone:
\* a step that can be taken is taken. The step at "prompt" is ComposePrompt
\* alone, which is always possible there, so its fairness is that of leaving
\* "prompt".
SpecTermination ==
    /\ Init
    /\ [][Next]_vars
    /\ WF_vars(ConnectEnter)
    /\ WF_vars(AttemptBuildParameters)
    /\ WF_vars(AttemptHandshake)
    /\ WF_vars(AttemptCatch)
    /\ WF_vars(FetchDisplayName)
    /\ WF_vars(AdviseVersion)
    /\ WF_vars(NegotiateTimeZone)
    /\ WF_pc(pc = "prompt" /\ pc' = "connected")
    /\ WF_vars(MainCatch)

\* C31: the second call of connect() starts at the first host of the list of
\* the first call, whichever host reported the authentication failure; each
\* call attempts each host at most once, so at most 2*N attempts are made,
\* and the bootstrap ends connected to one host or aborted.
C31_RetryRunsWholeList ==
    /\ [](/\ pass <= 2
          /\ \A p \in 1..2 :
                LET L == SelectSeq(attempt_log, LAMBDA e : e.pass = p)
                IN  /\ Len(L) <= Len(hosts_and_ports)
                    /\ L # <<>> => /\ L[1].index = 1
                                   /\ L[1].host = hosts_and_ports[1].host
          /\ Len(attempt_log) <= 2 * Len(hosts_and_ports))
    /\ [][pass >= 1 => hosts_and_ports' = hosts_and_ports]_vars
    /\ <>(\/ pc = "aborted"
          \/ pc = "connected" /\ connection \in 1..Len(hosts_and_ports))

\* the second host of three asked for a password, and the second call made
\* three attempts from the first host and is connected to the third
C31_Witness ==
    /\ pc = "connected"
    /\ pass = 2
    /\ Len(attempt_log) = 5
    /\ attempt_log[2].result = "REQUIRED_PASSWORD"
    /\ attempt_log[3].pass = 2
    /\ attempt_log[3].index = 1
    /\ connection = 3


\* ------------------------------------------------------------------ specification of the whole bootstrap

\* processOptions, initialize and main() with its calls of connect()
NextBootstrap ==
    \/ ProcessOptionsConfig
    \/ Initialize
    \/ Next

\* The bootstrap from the parsed command line on. Either the credentials vary
\* over the command line, the environment, the root of the configuration file
\* and a profile named after the host a, on a terminal or not; or the security
\* flags and the certificate setting vary over the command line, the root of
\* the file and up to MaxProfiles profiles, with or without a selector and a
\* host in the root of the file, and with a list of hosts that is empty or
\* whose hosts match a profile, a different one, or none.
InitBootstrap ==
    /\ pc = "process_options"
    /\ pass = 0
    /\ use_client_time_zone = TRUE
    /\ build = [use_jwt |-> TRUE, use_ssh |-> TRUE]
    /\ config = EmptyConfig
    /\ attempted_address_index = 0
    /\ connection_parameters = NoParameters
    /\ connection = 0
    /\ exception = NoException
    /\ server_display_name = <<>>
    /\ time_zone_adopted = <<"l", "o", "c", "a", "l">>
    /\ warnings = <<>>
    /\ attempt_log = <<>>
    /\ thrown = <<>>
    /\ history_max_entries = 0
    /\ TokIdle
    /\ SesIdle
    /\ \/ /\ is_interactive \in BOOLEAN
          /\ \E password \in {{}, {<<"c", "p">>}}, ask \in {{}, {TRUE}},
                jwt \in {{}, {<<"j">>}} :
               options = [NoOptions EXCEPT !["password"] = password,
                                           !["ask-password"] = ask,
                                           !["jwt"] = jwt]
          /\ \E password \in {{}, {<<"e", "p">>}} :
               environment = [NoEnvironment EXCEPT !["CLICKHOUSE_PASSWORD"] = password]
          /\ \/ loaded_config = NoFile
             \/ \E password \in {{}, {<<"f", "p">>}},
                   profiles \in {<<>>} \cup {<<profile>> : profile \in CredentialProfiles} :
                  loaded_config = [found |-> TRUE,
                                   root |-> [EmptyConfig EXCEPT !["password"] = password],
                                   connections_credentials |-> profiles]
          /\ hosts_and_ports \in {<<[host |-> <<"a">>, port |-> NoPort]>>,
                                  <<[host |-> <<"a">>, port |-> NoPort],
                                    [host |-> <<"b">>, port |-> NoPort]>>}
       \/ /\ is_interactive = FALSE
          /\ \E secure \in {{}, {TRUE}}, no_secure \in {{}, {TRUE}}, accept \in {{}, {TRUE}},
                connection_name \in {{}, {<<"b">>}} :
               options = [NoOptions EXCEPT !["connection"] = connection_name,
                                           !["secure"] = secure,
                                           !["no-secure"] = no_secure,
                                           !["accept-invalid-certificate"] = accept]
          /\ environment = NoEnvironment
          /\ \E accept \in {{}, {TRUE}, {FALSE}}, host \in {{}, {<<"a">>}},
                profiles \in SeqsUpTo(
                    {[EmptyProfile EXCEPT !["name"] = {<<"a">>},
                                          !["port"] = {DBMS_DEFAULT_SECURE_PORT},
                                          !["secure"] = {TRUE},
                                          !["user"] = {<<"p", "u">>},
                                          !["password"] = {<<"p", "p">>},
                                          !["accept-invalid-certificate"] = {FALSE}],
                     [EmptyProfile EXCEPT !["name"] = {<<"a">>},
                                          !["secure"] = {FALSE},
                                          !["accept-invalid-certificate"] = {TRUE}],
                     [EmptyProfile EXCEPT !["name"] = {<<"b">>},
                                          !["user"] = {<<"q", "u">>},
                                          !["password"] = {<<"q", "p">>}]},
                    MaxProfiles) :
               loaded_config = [found |-> TRUE,
                                root |-> [EmptyConfig EXCEPT
                                            !["host"] = host,
                                            !["accept-invalid-certificate"] = accept],
                                connections_credentials |-> profiles]
          /\ hosts_and_ports \in {<<>>,
                                  <<[host |-> <<"a">>, port |-> NoPort]>>,
                                  <<[host |-> <<"a">>, port |-> NoPort],
                                    [host |-> <<"b">>, port |-> NoPort]>>,
                                  <<[host |-> <<"c">>, port |-> NoPort],
                                    [host |-> <<"a">>, port |-> NoPort]>>}

SpecBootstrap == InitBootstrap /\ [][NextBootstrap]_vars


\* ------------------------------------------------------------------ properties of the retry

\* the attempts of the second call of connect()
RetryLog == SelectSeq(attempt_log, LAMBDA e : e.pass = 2)

\* main() has set ask-password and called connect() again, or is about to
RetryForced == pass = 2 \/ (pass = 1 /\ pc = "call_connect")

\* no source of the configuration holds a password: the command line, the
\* environment, the configuration file with its matched profile overlaid
NoPasswordInAnyLayer ==
    /\ config["password"] = {}
    /\ options["password"] = {}
    /\ environment["CLICKHOUSE_PASSWORD"] = {}
    /\ loaded_config.root["password"] = {}

PasswordEntryActive ==
    /\ config["jwt"] = {} /\ config["ssh-key-file"] = {}
    /\ config["ask-password"] = {TRUE} \/ config["password"] = {ASK_PASSWORD}

\* the attempts of the call of connect() that is running
CurrentLog == SelectSeq(attempt_log, LAMBDA e : e.pass = pass)

\* C33 as stated: while password entry is active, every host attempted in the
\* call read the password from the terminal, so a call that succeeds at its
\* (k+1)-th host prompted k+1 times; the password typed is kept nowhere but in
\* the parameters of that host.
C33_PromptPerHost ==
    (PasswordEntryActive /\ pc # "call_connect") =>
        /\ \A i \in 1..Len(CurrentLog) : CurrentLog[i].prompted
        /\ config["password"] \in {{}, {ASK_PASSWORD}}

\* C33, amended: the same when no password is configured together with
\* ask-password; when one is, every attempt fails before the terminal is read
\* and nothing is prompted.
C33_PromptPerHostWithoutConflict ==
    (PasswordEntryActive /\ pc # "call_connect") =>
        IF config["ask-password"] = {TRUE} /\ config["password"] # {}
        THEN \A i \in 1..Len(CurrentLog) :
                ~CurrentLog[i].prompted /\ CurrentLog[i].result = "BAD_ARGUMENTS"
        ELSE /\ \A i \in 1..Len(CurrentLog) : CurrentLog[i].prompted
             /\ config["password"] \in {{}, {ASK_PASSWORD}}

\* two hosts failed recoverably, the third accepted: three prompts in the call
C33_Witness ==
    /\ pc = "connected"
    /\ pass = 1
    /\ PasswordEntryActive
    /\ config["password"] = {ASK_PASSWORD}
    /\ Len(attempt_log) = 3
    /\ attempt_log[1].result = "DNS_ERROR" /\ attempt_log[1].prompted
    /\ attempt_log[2].result = "NETWORK_ERROR" /\ attempt_log[2].prompted
    /\ attempt_log[3].result = "OK" /\ attempt_log[3].prompted


\* ------------------------------------------------------------------ properties of certificate verification

\* C34: after initialize, certificates are accepted unverified (handler
\* AcceptCertificateHandler, verification mode none) only if
\* --accept-invalid-certificate was given or the configuration, with the
\* matched profile overlaid, sets accept-invalid-certificate to true; with the
\* key set to false and no option the handler is RejectCertificateHandler.
C34_CertificateVerification ==
    pc \notin {"process_options", "initialize", "aborted"} =>
        LET accepted == config["openSSL.client.invalidCertificateHandler.name"]
                          = {"AcceptCertificateHandler"}
            unverified == config["openSSL.client.verificationMode"] = {"none"}
            asked == \/ options["accept-invalid-certificate"] # {}
                     \/ config["accept-invalid-certificate"] = {TRUE}
        IN  /\ accepted => asked
            /\ unverified => asked
            /\ (/\ options["accept-invalid-certificate"] = {}
                /\ config["accept-invalid-certificate"] = {FALSE})
                 => config["openSSL.client.invalidCertificateHandler.name"]
                      = {"RejectCertificateHandler"}

\* What the code does: the handler accepts exactly when the option was given
\* or the key accept-invalid-certificate is present, whatever its value.
CertificateVerificationAsCoded ==
    pc \notin {"process_options", "initialize", "aborted"} =>
        /\ config["openSSL.client.invalidCertificateHandler.name"]
             = (IF \/ options["accept-invalid-certificate"] # {}
                   \/ config["accept-invalid-certificate"] # {}
                THEN {"AcceptCertificateHandler"} ELSE {"RejectCertificateHandler"})
        /\ config["openSSL.client.verificationMode"] = {"none"}
             <=> config["openSSL.client.invalidCertificateHandler.name"]
                   = {"AcceptCertificateHandler"}



\* ------------------------------------------------------------------ the failover list with explicit ports

\* connect() is entered with up to MaxHosts hosts, each with the port 9001 of
\* its own or with none, with the key port set to 9100 or not set, with no
\* password configured, on a terminal or not.
InitFailover ==
    /\ pc = "call_connect"
    /\ pass = 0
    /\ is_interactive \in BOOLEAN
    /\ build = [use_jwt |-> TRUE, use_ssh |-> TRUE]
    /\ use_client_time_zone \in BOOLEAN
    /\ \E port \in {{}, {9100}} : config = [EmptyConfig EXCEPT !["port"] = port]
    /\ \E n \in 1..MaxHosts :
         \E ports \in [1..n -> {NoPort, 9001}] :
            hosts_and_ports = [i \in 1..n |-> [host |-> HostAt(i), port |-> ports[i]]]
    /\ attempted_address_index = 0
    /\ connection_parameters = NoParameters
    /\ connection = 0
    /\ exception = NoException
    /\ server_display_name = <<>>
    /\ time_zone_adopted = <<"l", "o", "c", "a", "l">>
    /\ warnings = <<>>
    /\ attempt_log = <<>>
    /\ thrown = <<>>
    /\ TokIdle
    /\ SesIdle
    /\ ResIdle

SpecFailover == InitFailover /\ [][Next]_vars

\* ------------------------------------------------------------------ properties of the frame of a failed attempt

\* the step records a failed attempt, or is the catch block of the loop
FailedAttemptStep ==
    \/ /\ attempt_log' # attempt_log
       /\ attempt_log'[Len(attempt_log')].result # "OK"
    \/ pc = "catch"

\* C35: a host attempt that fails leaves the keys host and port as they were,
\* they are written only by the attempt that is committed, and a failed attempt
\* changes nothing but the diagnostics and the parameters and connection that
\* the next attempt replaces; so the port resolved for a host without an
\* explicit port is never the port of a host that failed earlier in the list.
C35_FailedAttemptLeavesNoTrace ==
    /\ [][FailedAttemptStep =>
            /\ config' = config
            /\ UNCHANGED <<hosts_and_ports, is_interactive, build, use_client_time_zone,
                           server_display_name, time_zone_adopted, warnings, pass>>
            /\ UNCHANGED <<server_version, advisory, prompt>>]_vars
    /\ [][(config'["host"] # config["host"] \/ config'["port"] # config["port"]) =>
            /\ pc = "handshake"
            /\ attempt_log' = Append(attempt_log, attempt_log'[Len(attempt_log')])
            /\ attempt_log'[Len(attempt_log')].result = "OK"
            /\ config'["host"] = {connection_parameters.host}
            /\ config'["port"] = {connection_parameters.port}]_vars
    /\ [](pc = "handshake" /\ hosts_and_ports[attempted_address_index].port = NoPort =>
            \A j \in 1..(attempted_address_index - 1) :
                hosts_and_ports[j].port # NoPort
                    => connection_parameters.port # hosts_and_ports[j].port)

\* What the code does: the port of a host without an explicit port is not the
\* port of an earlier host of the list as long as no call of connect() has
\* committed a host.
PortIndependentBeforeCommit ==
    (/\ pc = "handshake"
     /\ hosts_and_ports[attempted_address_index].port = NoPort
     /\ \A i \in 1..Len(attempt_log) : attempt_log[i].result # "OK") =>
        \A j \in 1..(attempted_address_index - 1) :
            hosts_and_ports[j].port # NoPort
                => connection_parameters.port # hosts_and_ports[j].port

\* The first call of connect() committed the first host at its explicit port
\* and failed after the loop for the password; in the second call that host
\* failed, and the second host, which has no port of its own, is attempted at
\* the port of the first.
PortOfCommittedHostLeaks ==
    /\ pc = "handshake"
    /\ pass = 2
    /\ attempted_address_index = 2
    /\ hosts_and_ports[1].port = 9001
    /\ hosts_and_ports[2].port = NoPort
    /\ attempt_log[1].result = "OK"
    /\ attempt_log[Len(attempt_log)].pass = 2
    /\ attempt_log[Len(attempt_log)].index = 1
    /\ attempt_log[Len(attempt_log)].result = "NETWORK_ERROR"
    /\ connection_parameters.port = 9001

\* ------------------------------------------------------------------ properties of the security flags across the layers

\* the profiles of the loaded file that the substitution overlaid: those named
\* after the first host, no selector being given
MatchedProfiles ==
    {i \in 1..Len(loaded_config.connections_credentials) :
        ProfileName(loaded_config.connections_credentials[i]) = hosts_and_ports[1].host}

\* the matched profiles that set secure all set it to value
MatchedSecure(value) ==
    /\ Get(config, "connection", <<>>) = <<>>
    /\ \E i \in MatchedProfiles : loaded_config.connections_credentials[i]["secure"] = {value}
    /\ \A i \in MatchedProfiles :
           loaded_config.connections_credentials[i]["secure"] \subseteq {value}

\* C36: the command line wins over the matched profile for the security
\* setting: with --no-secure given and a matched profile with secure = true
\* the ConnectionParameters are built with security Disabled, and with
\* --secure given and a matched profile with secure = false with security
\* Enabled.
C36_CommandLineSecurityWins ==
    pc = "handshake" =>
        /\ (/\ options["no-secure"] = {TRUE} /\ options["secure"] = {}
            /\ MatchedSecure(TRUE))
             => connection_parameters.security = FALSE
        /\ (/\ options["secure"] = {TRUE} /\ options["no-secure"] = {}
            /\ MatchedSecure(FALSE))
             => connection_parameters.security = TRUE

\* What the code does: secure set in any layer wins over no-secure set in any
\* layer, so the connection is secure in both cases.
SecurityAsCoded ==
    pc = "handshake" =>
        /\ (/\ options["no-secure"] = {TRUE} /\ options["secure"] = {}
            /\ MatchedSecure(TRUE))
             => connection_parameters.security = TRUE
        /\ (/\ options["secure"] = {TRUE} /\ options["no-secure"] = {}
            /\ MatchedSecure(FALSE))
             => connection_parameters.security = TRUE

\* --no-secure was given, the profile of host a sets secure, and the
\* parameters of host a are built with security Enabled
NoSecureOverruled ==
    /\ pc = "handshake"
    /\ options["no-secure"] = {TRUE} /\ options["secure"] = {}
    /\ MatchedSecure(TRUE)
    /\ connection_parameters.host = <<"a">>
    /\ connection_parameters.security = TRUE


\* ------------------------------------------------------------------ properties of the profile across the failover list

\* the profiles that the one substitution overlaid: those named by the
\* selector, or else after the first host of the list
SubstitutedProfiles ==
    LET selector == Get(config, "connection", <<>>)
        wanted == IF selector # <<>> THEN selector ELSE hosts_and_ports[1].host
    IN  {i \in 1..Len(loaded_config.connections_credentials) :
            ProfileName(loaded_config.connections_credentials[i]) = wanted}

\* what the substituted profiles give for a key: the value of the last of them
\* that has the key
Overlaid(key) ==
    LET having == {i \in SubstitutedProfiles :
                      loaded_config.connections_credentials[i][key] # {}}
    IN  IF having = {} THEN {}
        ELSE loaded_config.connections_credentials[
                 CHOOSE i \in having : \A j \in having : j <= i][key]

SelectorOverFirstHost ==
    /\ pc = "handshake"
    /\ attempted_address_index = 1
    /\ Get(config, "connection", <<>>) = <<"b">>
    /\ connection_parameters.host = <<"a">>
    /\ connection_parameters.user = <<"q", "u">>
    /\ connection_parameters.password = <<"q", "p">>

====
